---- MODULE Spec2Model ----
(***************************************************************************)
(* Meal Planner: the localStorage-backed Domain Store (favorites, meal     *)
(* plan, shopping list) and the page-controller handlers that drive it.    *)
(*                                                                         *)
(* JavaScript values are represented as follows.                           *)
(*   - a plain object is a TLA+ record/function; a property the object     *)
(*     does not own is a key outside its DOMAIN (reading it gives          *)
(*     undefined unless Object.prototype supplies it);                     *)
(*   - an array is a sequence;                                             *)
(*   - null is the value  null  below;                                     *)
(*   - a return value is one of the strings "true", "false", "undefined".  *)
(*   - ingredient / item names are sequences of one-character strings, so  *)
(*     that toLowerCase and keyword search are computed, not assumed.      *)
(***************************************************************************)
EXTENDS Integers, Sequences, FiniteSets, TLC

VARIABLES
    localStorage,   \* window.localStorage restricted to the application keys
    now,            \* the value Date.now() returns (milliseconds)
    quotaExceeded,  \* TRUE while localStorage.setItem throws (quota, disabled storage)
    inflight,       \* toggleFavorite calls suspended at `await API.getRecipeById`
    result,         \* the last event: the call made and what it returned
    button,         \* textContent of the favorite button of one recipe card
    modal,          \* the meal-plan modal and its confirm handler
    searching       \* searchRecipesWithCache calls suspended at `await searchRecipes`

vars == <<localStorage, now, quotaExceeded, inflight, result, button, modal, searching>>

\* The state of the pages, which the Domain Store never touches
page == <<button, modal, searching>>

----------------------------------------------------------------------------
(* Bounds of the model *)

MaxRecipeId == 2    \* recipe identifiers are 1..MaxRecipeId
MaxClock == 1       \* Date.now() ranges over 0..MaxClock
MaxInflight == 1    \* toggleFavorite calls suspended at a time
MaxImportLen == 2   \* length of an imported favorites array

RecipeIds == 1..MaxRecipeId
Times == 0..MaxClock

----------------------------------------------------------------------------
(* JavaScript values *)

null == [null |-> TRUE]

\* No meal-plan modal is in the document and no confirm handler is pending
NoModal == [shown |-> FALSE, pending |-> FALSE]

NoItem == [noItem |-> TRUE]   \* what localStorage.getItem gives for a missing key

\* Array.prototype.filter
filter(seq, Keep(_)) == SelectSeq(seq, Keep)

\* Array.prototype.some
some(seq, P(_)) == \E i \in 1..Len(seq) : P(seq[i])

\* `a === b` for two recipe or item identifiers (numbers)
StrictEq(a, b) == a = b

\* `obj.id === id` for a number id: an object without an id property reads
\* as undefined there, which is strictly equal to no number
IdIs(obj, id) == "id" \in DOMAIN obj /\ StrictEq(obj.id, id)

\* `a.id === b.id` for two stored objects (undefined === undefined holds)
SameId(a, b) ==
    IF "id" \in DOMAIN a /\ "id" \in DOMAIN b
    THEN StrictEq(a.id, b.id)
    ELSE ("id" \in DOMAIN a) = ("id" \in DOMAIN b)

----------------------------------------------------------------------------
(* STORAGE_KEYS *)

FAVORITES == "mealplanner_favorites"
MEAL_PLAN == "mealplanner_meal_plan"
SHOPPING_LIST == "mealplanner_shopping_list"
USER_PREFERENCES == "mealplanner_preferences"
RECENT_SEARCHES == "mealplanner_recent_searches"

STORAGE_KEYS == {FAVORITES, MEAL_PLAN, SHOPPING_LIST, USER_PREFERENCES, RECENT_SEARCHES}

----------------------------------------------------------------------------
(* Key-value adapter.  The operators take the store contents ls and give   *)
(* the new contents together with the return value, so that a handler      *)
(* that calls them several times can be composed.                          *)

\* JSON.stringify / JSON.parse over the values of this model (finite
\* numbers, strings, booleans, null, arrays and plain objects without
\* undefined-valued properties): the text is kept as the tree it denotes.
JSONstringify(v) == [json |-> v]
JSONparse(text) == text.json

\* Text under a key that JSON.parse rejects (left by another page of the
\* origin, or by hand)
NotJSON == [notJSON |-> TRUE]

\* A mutation of saveToStorage that loses the stored item when setItem fails
saveToStorage_losesItemOnFailure(ls, key, data) ==
    IF quotaExceeded
    THEN [ls |-> [ls EXCEPT ![key] = NoItem], ret |-> "false"]
    ELSE [ls |-> [ls EXCEPT ![key] = JSONstringify(data)], ret |-> "true"]

\* saveToStorage(key, data): setItem throws while the quota is exceeded,
\* the exception is caught and false returned.
saveToStorage(ls, key, data) ==
    IF quotaExceeded
    THEN [ls |-> ls, ret |-> "false"]
    ELSE [ls |-> [ls EXCEPT ![key] = JSONstringify(data)], ret |-> "true"]

\* getFromStorage(key): null for a missing item, and for text that
\* JSON.parse throws on
getFromStorage(ls, key) ==
    IF ls[key] = NoItem \/ ls[key] = NotJSON THEN null ELSE JSONparse(ls[key])

\* `getFromStorage(key) || dflt`.  The Domain Store only ever saves arrays
\* and objects, which are truthy, so the default is taken exactly when
\* getFromStorage gives null.
getFromStorageOr(ls, key, dflt) ==
    IF ls[key] = NoItem \/ ls[key] = NotJSON THEN dflt ELSE getFromStorage(ls, key)

\* removeFromStorage(key)
removeFromStorage(ls, key) == [ls |-> [ls EXCEPT ![key] = NoItem], ret |-> "true"]

----------------------------------------------------------------------------
(* Recipes of the external catalog, as API.getRecipeById resolves them *)

\* Names and aisles of the catalog's ingredients
Tomato == <<"T", "o", "m", "a", "t", "o">>
tomato == <<"t", "o", "m", "a", "t", "o">>
Onion == <<"O", "n", "i", "o", "n">>
FreshBasil == <<"f", "r", "e", "s", "h", " ", "b", "a", "s", "i", "l">>
Produce == <<"P", "r", "o", "d", "u", "c", "e">>

\* extendedIngredients of recipe i.  aisle, amount and unit are optional.
Ingredients(i) ==
    IF i % 2 = 1
    THEN <<[name |-> Tomato, aisle |-> Produce, amount |-> 2, unit |-> "cup"],
           [name |-> FreshBasil]>>
    ELSE <<[name |-> Tomato, aisle |-> Produce, amount |-> 3, unit |-> "g"],
           [name |-> tomato, amount |-> 1]>>

\* nutrition.nutrients of recipe i.  An amount is held in tenths, so that
\* 455.4 is 4554.
Nutrients(i) ==
    IF i % 2 = 1
    THEN <<[name |-> "Calories", amount |-> 4554],
           [name |-> "Protein", amount |-> 125]>>
    ELSE <<[name |-> "Calories", amount |-> 14000]>>

Recipe(i) ==
    [id |-> i, title |-> "recipe",
     extendedIngredients |-> Ingredients(i),
     nutrition |-> [nutrients |-> Nutrients(i)]]

Recipes == {Recipe(i) : i \in RecipeIds}

\* How a request of the catalog client ends: a 2xx answer with a JSON
\* body, a rejected fetch, a status that is not OK
FetchOutcomes == {"ok", "networkError", "httpError"}

\* fetchFromAPI(url): every failure is caught and turned into
\* {success: false, error}; data is what the endpoint answers when it works
fetchFromAPI(outcome, data) ==
    IF outcome = "ok" THEN [success |-> TRUE, data |-> data]
    ELSE [success |-> FALSE, error |-> outcome]

\* A mutation of getRecipeById that answers a failure with the recipe
getRecipeById_ignoresFailure(outcome, recipeId) == Recipe(recipeId)

\* getRecipeById(recipeId): the recipe, or null
getRecipeById(outcome, recipeId) ==
    LET res == fetchFromAPI(outcome, Recipe(recipeId))
    IN  IF res.success THEN res.data ELSE null

----------------------------------------------------------------------------
(* Favorites *)

getFavorites(ls) == getFromStorageOr(ls, FAVORITES, <<>>)

\* {...recipe, addedAt: t}
WithAddedAt(recipe, t) ==
    [k \in (DOMAIN recipe) \cup {"addedAt"} |->
        IF k = "addedAt" THEN t ELSE recipe[k]]

\* addToFavorites without the "already exists" check
addToFavorites_noExistsCheck(ls, t, recipe) ==
    [ls |-> saveToStorage(ls, FAVORITES,
                Append(getFavorites(ls), WithAddedAt(recipe, t))).ls,
     ret |-> "true"]

addToFavorites(ls, t, recipe) ==
    LET favorites == getFavorites(ls)
        exists == some(favorites, LAMBDA fav : IdIs(fav, recipe.id))
    IN  IF exists
        THEN [ls |-> ls, ret |-> "false"]
        ELSE [ls |-> saveToStorage(ls, FAVORITES,
                         Append(favorites, WithAddedAt(recipe, t))).ls,
              ret |-> "true"]

\* removeFromFavorites that drops the oldest entry when the id is not found
removeFromFavorites_dropsHead(ls, recipeId) ==
    LET favorites == getFavorites(ls)
        filtered == filter(favorites, LAMBDA fav : ~IdIs(fav, recipeId))
    IN  [ls |-> saveToStorage(ls, FAVORITES,
                    IF filtered = favorites /\ favorites # <<>>
                    THEN Tail(favorites) ELSE filtered).ls,
         ret |-> "undefined"]

removeFromFavorites(ls, recipeId) ==
    LET favorites == getFavorites(ls)
        filtered == filter(favorites, LAMBDA fav : ~IdIs(fav, recipeId))
    IN  [ls |-> saveToStorage(ls, FAVORITES, filtered).ls, ret |-> "undefined"]

isInFavorites(ls, recipeId) ==
    some(getFavorites(ls), LAMBDA fav : IdIs(fav, recipeId))

clearFavorites(ls) ==
    [ls |-> saveToStorage(ls, FAVORITES, <<>>).ls, ret |-> "undefined"]

----------------------------------------------------------------------------
(* Favorites: page-controller handlers *)

\* What an import file can hold: text that is not JSON, JSON that is not an
\* array, or an array whose elements are recipes (as exportFavorites wrote
\* them, or edited by hand) or null.  Two different recipes are enough for
\* a file to repeat an id or not; the loop never reads past a null, so a
\* null is only enumerated as the last element.
ImportRecipes == {Recipe(1), Recipe(MaxRecipeId)}

RECURSIVE SeqsUpTo(_, _)
SeqsUpTo(S, n) ==
    IF n = 0 THEN {<<>>}
    ELSE LET shorter == SeqsUpTo(S, n - 1)
         IN  shorter \cup {Append(q, e) : q \in shorter, e \in S}

ImportArrays ==
    SeqsUpTo(ImportRecipes, MaxImportLen)
    \cup {Append(q, null) : q \in SeqsUpTo(ImportRecipes, MaxImportLen - 1)}

ImportFiles ==
    {[kind |-> "unparseable"], [kind |-> "notArray"]}
    \cup {[kind |-> "array", elems |-> q] : q \in ImportArrays}

\* importedFavorites.forEach(recipe => Storage.addToFavorites(recipe)).
\* For a null element, addToFavorites reads recipe.id inside the callback of
\* favorites.some: with a favorite stored that throws a TypeError, which
\* ends the loop; with none stored the callback never runs, and
\* {...null, addedAt} is saved as the only favorite.
RECURSIVE importLoop(_, _, _)
importLoop(ls, t, elems) ==
    IF elems = <<>> THEN [ls |-> ls, threw |-> FALSE]
    ELSE IF Head(elems) = null
    THEN IF getFavorites(ls) = <<>>
         THEN importLoop(saveToStorage(ls, FAVORITES, <<[addedAt |-> t]>>).ls,
                         t, Tail(elems))
         ELSE [ls |-> ls, threw |-> TRUE]
    ELSE importLoop(addToFavorites(ls, t, Head(elems)).ls, t, Tail(elems))

\* reader.onload of importFavorites(file)
importFavorites(ls, t, file) ==
    IF file.kind # "array"
    THEN [ls |-> ls, toast |-> "Failed to import favorites"]
    ELSE LET r == importLoop(ls, t, file.elems)
         IN  [ls |-> r.ls,
              toast |-> IF r.threw THEN "Failed to import favorites"
                        ELSE "Imported recipes"]

----------------------------------------------------------------------------
(* Initial state: a browser profile with nothing stored *)

Init ==
    /\ localStorage = [k \in STORAGE_KEYS |-> NoItem]
    /\ now = 0
    /\ quotaExceeded = FALSE
    /\ inflight = [i \in RecipeIds |-> 0]
    /\ result = [op |-> "init"]
    /\ button = "white heart"
    /\ modal = NoModal
    /\ searching = {}

\* Time passes: Date.now() is non-decreasing and has millisecond resolution,
\* so consecutive calls may or may not see it advance.
Tick ==
    /\ now < MaxClock
    /\ now' = now + 1
    /\ result' = [op |-> "tick"]
    /\ UNCHANGED <<localStorage, quotaExceeded, inflight, page>>

\* The storage quota is reached or space is freed (by other origins' data,
\* private mode, the user clearing data of other keys).
QuotaChange ==
    /\ quotaExceeded' = ~quotaExceeded
    /\ result' = [op |-> "quotaChange"]
    /\ UNCHANGED <<localStorage, now, inflight, page>>

----------------------------------------------------------------------------
(* Favorites: actions *)

AddToFavorites ==
    \E recipe \in Recipes :
        LET r == addToFavorites(localStorage, now, recipe)
        IN  /\ localStorage' = r.ls
            /\ result' = [op |-> "addToFavorites", recipe |-> recipe, ret |-> r.ret]
            /\ UNCHANGED <<now, quotaExceeded, inflight, page>>

RemoveFromFavorites ==
    \E recipeId \in RecipeIds :
        LET r == removeFromFavorites(localStorage, recipeId)
        IN  /\ localStorage' = r.ls
            /\ result' = [op |-> "removeFromFavorites", recipeId |-> recipeId,
                          ret |-> r.ret]
            /\ UNCHANGED <<now, quotaExceeded, inflight, page>>

ClearFavorites ==
    /\ localStorage' = clearFavorites(localStorage).ls
    /\ result' = [op |-> "clearFavorites", ret |-> "undefined"]
    /\ UNCHANGED <<now, quotaExceeded, inflight, page>>

\* The recipe card whose favorite button the model follows
ObservedCard == 1

\* The sum of f over the set S
RECURSIVE SumOf(_, _)
SumOf(f, S) ==
    IF S = {} THEN 0
    ELSE LET x == CHOOSE x \in S : TRUE IN f[x] + SumOf(f, S \ {x})

\* Utils.showLoading(button): the heart on the button is next written when
\* the call resumes
showLoading(text) == text

\* toggleFavorite(recipeId, button) up to its await: a favorite is removed
\* at once and the button shows the white heart, otherwise the call
\* suspends on the recipe-detail fetch.  At most `limit` calls of the page
\* are suspended at a time.
ToggleFavoriteClickUpTo(limit) ==
    \E recipeId \in RecipeIds :
        IF isInFavorites(localStorage, recipeId)
        THEN /\ localStorage' = removeFromFavorites(localStorage, recipeId).ls
             /\ button' = IF recipeId = ObservedCard THEN "white heart" ELSE button
             /\ result' = [op |-> "toggleFavorite", recipeId |-> recipeId,
                           did |-> "removed"]
             /\ UNCHANGED <<now, quotaExceeded, inflight, modal, searching>>
        ELSE /\ SumOf(inflight, RecipeIds) < limit
             /\ inflight' = [inflight EXCEPT ![recipeId] = @ + 1]
             /\ button' = showLoading(button)
             /\ result' = [op |-> "toggleFavorite", recipeId |-> recipeId,
                           did |-> "fetching"]
             /\ UNCHANGED <<localStorage, now, quotaExceeded, modal, searching>>

\* The clicks of the favorites model: MaxInflight calls suspended at a time
ToggleFavoriteClick == ToggleFavoriteClickUpTo(MaxInflight)

\* toggleFavorite after the await: getRecipeById resolved with the recipe
\* or, on a network/API failure, with null.
ToggleFavoriteResume ==
    \E recipeId \in RecipeIds, outcome \in FetchOutcomes :
        LET recipe == getRecipeById(outcome, recipeId)
        IN  /\ inflight[recipeId] > 0
            /\ inflight' = [inflight EXCEPT ![recipeId] = @ - 1]
            /\ IF recipe # null
               THEN LET r == addToFavorites(localStorage, now, recipe)
                    IN  /\ localStorage' = r.ls
                        /\ button' = IF recipeId = ObservedCard THEN "red heart"
                                      ELSE button
                        /\ result' = [op |-> "toggleFavorite", recipeId |-> recipeId,
                                      outcome |-> outcome, did |-> "added",
                                      ret |-> r.ret]
               ELSE /\ localStorage' = localStorage
                    /\ button' = IF recipeId = ObservedCard THEN "white heart" ELSE button
                    /\ result' = [op |-> "toggleFavorite", recipeId |-> recipeId,
                                  outcome |-> outcome, did |-> "failed"]
            /\ UNCHANGED <<now, quotaExceeded, modal, searching>>

ImportFavorites ==
    \E file \in ImportFiles :
        LET r == importFavorites(localStorage, now, file)
        IN  /\ localStorage' = r.ls
            /\ result' = [op |-> "importFavorites", toast |-> r.toast]
            /\ UNCHANGED <<now, quotaExceeded, inflight, page>>

NextFavorites ==
    \/ AddToFavorites
    \/ RemoveFromFavorites
    \/ ClearFavorites
    \/ ToggleFavoriteClick
    \/ ToggleFavoriteResume
    \/ ImportFavorites
    \/ Tick

\* The favorites collection with a storage that accepts every write
SpecFavorites == Init /\ [][NextFavorites]_vars

----------------------------------------------------------------------------
(* Meal plan *)

DAYS == <<"monday", "tuesday", "wednesday", "thursday", "friday", "saturday", "sunday">>
MEAL_TYPES == <<"breakfast", "lunch", "dinner">>

Range(seq) == {seq[i] : i \in 1..Len(seq)}

\* { monday: { breakfast: null, lunch: null, dinner: null }, ... }
emptyPlan ==
    [day \in Range(DAYS) |-> [mealType \in Range(MEAL_TYPES) |-> null]]

getMealPlan(ls) == getFromStorageOr(ls, MEAL_PLAN, emptyPlan)

\* Property names every plain object inherits from Object.prototype; the
\* inherited values are functions or objects, hence truthy.
ObjectPrototypeKeys ==
    {"constructor", "toString", "toLocaleString", "valueOf", "hasOwnProperty",
     "isPrototypeOf", "propertyIsEnumerable", "__proto__"}

\* `!!obj[key]` for an object whose own properties hold objects
HasTruthy(obj, key) == key \in DOMAIN obj \/ key \in ObjectPrototypeKeys

\* `obj[key] = value` on an own object: the property is created or overwritten
SetProp(obj, key, value) ==
    [k \in (DOMAIN obj) \cup {key} |-> IF k = key THEN value ELSE obj[k]]

\* A slot write that replaces the whole day record by one holding the slot
SetSlot_resetsDay(mealPlan, day, mealType, value) ==
    IF day \in DOMAIN mealPlan
    THEN [mealPlan EXCEPT ![day] = SetProp(emptyPlan["monday"], mealType, value)]
    ELSE mealPlan

\* `mealPlan[day][mealType] = value`.  When day is an own property the slot
\* of that day object is written.  When mealPlan[day] is inherited (such as
\* mealPlan['constructor'], the global Object function) the write lands on
\* that shared object and mealPlan itself is left as it was.
SetSlot(mealPlan, day, mealType, value) ==
    IF day \in DOMAIN mealPlan
    THEN [mealPlan EXCEPT ![day] = SetProp(@, mealType, value)]
    ELSE mealPlan

addMealToPlan(ls, day, mealType, recipe) ==
    LET mealPlan == getMealPlan(ls)
    IN  IF ~HasTruthy(mealPlan, day)
        THEN [ls |-> ls, ret |-> "false"]
        ELSE [ls |-> saveToStorage(ls, MEAL_PLAN,
                         SetSlot(mealPlan, day, mealType, recipe)).ls,
              ret |-> "true"]

removeMealFromPlan(ls, day, mealType) ==
    LET mealPlan == getMealPlan(ls)
    IN  IF HasTruthy(mealPlan, day)
        THEN [ls |-> saveToStorage(ls, MEAL_PLAN,
                         SetSlot(mealPlan, day, mealType, null)).ls,
              ret |-> "true"]
        ELSE [ls |-> ls, ret |-> "false"]

clearMealPlan(ls) ==
    [ls |-> saveToStorage(ls, MEAL_PLAN, emptyPlan).ls, ret |-> "undefined"]

\* Object.keys(obj) for the objects of a stored plan: the keys in creation
\* order, which is DAYS / MEAL_TYPES order followed by any key added later
\* by an assignment.
RECURSIVE SetToSeq(_)
SetToSeq(S) ==
    IF S = {} THEN <<>>
    ELSE LET x == CHOOSE y \in S : TRUE IN <<x>> \o SetToSeq(S \ {x})

ObjectKeys(obj, order) ==
    SelectSeq(order, LAMBDA k : k \in DOMAIN obj)
    \o SetToSeq((DOMAIN obj) \ Range(order))

\* A slot value is truthy when it is a recipe
IsMeal(v) == v # null

getAllMealsFromPlan(ls) ==
    LET mealPlan == getMealPlan(ls)
        mealsOfDay(day) ==
            LET keys == ObjectKeys(mealPlan[day], MEAL_TYPES)
                filled == SelectSeq(keys, LAMBDA mt : IsMeal(mealPlan[day][mt]))
            IN  [i \in 1..Len(filled) |->
                    [day |-> day, mealType |-> filled[i],
                     recipe |-> mealPlan[day][filled[i]]]]
        RECURSIVE collect(_)
        collect(days) ==
            IF days = <<>> THEN <<>>
            ELSE mealsOfDay(Head(days)) \o collect(Tail(days))
    IN  collect(ObjectKeys(mealPlan, DAYS))

----------------------------------------------------------------------------
(* Strings whose characters matter (item and ingredient names, aisles) are  *)
(* sequences of one-character strings.                                     *)

UpperLetters == <<"A", "B", "C", "D", "E", "F", "G", "H", "I", "J", "K", "L", "M", "N", "O", "P", "Q", "R", "S", "T", "U", "V", "W", "X", "Y", "Z">>
LowerLetters == <<"a", "b", "c", "d", "e", "f", "g", "h", "i", "j", "k", "l", "m", "n", "o", "p", "q", "r", "s", "t", "u", "v", "w", "x", "y", "z">>

\* String.prototype.toLowerCase, character by character
LowerChar(c) ==
    IF \E i \in 1..Len(UpperLetters) : UpperLetters[i] = c
    THEN LowerLetters[CHOOSE i \in 1..Len(UpperLetters) : UpperLetters[i] = c]
    ELSE c

toLowerCase(str) == [i \in 1..Len(str) |-> LowerChar(str[i])]

----------------------------------------------------------------------------
(* Shopping list *)

getShoppingList(ls) == getFromStorageOr(ls, SHOPPING_LIST, <<>>)

\* `item.category || 'other'`: a missing category reads as undefined
CategoryOrOther(item) ==
    IF "category" \in DOMAIN item THEN item.category ELSE "other"

\* addToShoppingList comparing the names as they are written
addToShoppingList_caseSensitive(ls, idTime, addedTime, item) ==
    LET list == getShoppingList(ls)
        exists == some(list, LAMBDA i : i.name = item.name)
    IN  IF exists
        THEN [ls |-> ls, ret |-> "false"]
        ELSE [ls |-> saveToStorage(ls, SHOPPING_LIST,
                         Append(list, [id |-> idTime,
                                       name |-> item.name,
                                       category |-> CategoryOrOther(item),
                                       checked |-> FALSE,
                                       addedAt |-> addedTime])).ls,
              ret |-> "true"]

\* addToShoppingList(item); idTime and addedTime are what the two calls of
\* Date.now() in the object literal return.
addToShoppingList(ls, idTime, addedTime, item) ==
    LET list == getShoppingList(ls)
        exists == some(list, LAMBDA i : toLowerCase(i.name) = toLowerCase(item.name))
    IN  IF exists
        THEN [ls |-> ls, ret |-> "false"]
        ELSE [ls |-> saveToStorage(ls, SHOPPING_LIST,
                         Append(list, [id |-> idTime,
                                       name |-> item.name,
                                       category |-> CategoryOrOther(item),
                                       checked |-> FALSE,
                                       addedAt |-> addedTime])).ls,
              ret |-> "true"]

removeFromShoppingList(ls, itemId) ==
    LET list == getShoppingList(ls)
        filtered == filter(list, LAMBDA item : ~StrictEq(item.id, itemId))
    IN  [ls |-> saveToStorage(ls, SHOPPING_LIST, filtered).ls, ret |-> "undefined"]

\* list.find(i => i.id === itemId): the index of the first match, 0 if none
findIndexById(list, itemId) ==
    IF some(list, LAMBDA i : StrictEq(i.id, itemId))
    THEN CHOOSE k \in 1..Len(list) :
            /\ StrictEq(list[k].id, itemId)
            /\ \A j \in 1..(k - 1) : ~StrictEq(list[j].id, itemId)
    ELSE 0

toggleShoppingItem(ls, itemId) ==
    LET list == getShoppingList(ls)
        k == findIndexById(list, itemId)
    IN  IF k # 0
        THEN [ls |-> saveToStorage(ls, SHOPPING_LIST,
                         [list EXCEPT ![k].checked = ~list[k].checked]).ls,
              ret |-> "true"]
        ELSE [ls |-> ls, ret |-> "false"]

clearShoppingList(ls) ==
    [ls |-> saveToStorage(ls, SHOPPING_LIST, <<>>).ls, ret |-> "undefined"]

----------------------------------------------------------------------------
(* Derivation: categorizeIngredient and generateShoppingListFromMealPlan *)

\* /produce|vegetable|fruit|lettuce|.../
ProduceKeywords ==
    {<<"p", "r", "o", "d", "u", "c", "e">>,
     <<"v", "e", "g", "e", "t", "a", "b", "l", "e">>,
     <<"f", "r", "u", "i", "t">>,
     <<"l", "e", "t", "t", "u", "c", "e">>,
     <<"t", "o", "m", "a", "t", "o">>,
     <<"o", "n", "i", "o", "n">>,
     <<"p", "e", "p", "p", "e", "r">>,
     <<"c", "a", "r", "r", "o", "t">>,
     <<"b", "r", "o", "c", "c", "o", "l", "i">>,
     <<"s", "p", "i", "n", "a", "c", "h">>,
     <<"k", "a", "l", "e">>,
     <<"c", "a", "b", "b", "a", "g", "e">>,
     <<"c", "u", "c", "u", "m", "b", "e", "r">>,
     <<"z", "u", "c", "c", "h", "i", "n", "i">>,
     <<"p", "o", "t", "a", "t", "o">>,
     <<"c", "e", "l", "e", "r", "y">>,
     <<"a", "v", "o", "c", "a", "d", "o">>,
     <<"m", "u", "s", "h", "r", "o", "o", "m">>,
     <<"g", "a", "r", "l", "i", "c">>,
     <<"h", "e", "r", "b">>,
     <<"f", "r", "e", "s", "h">>}

\* /meat|seafood|poultry|beef|.../
MeatKeywords ==
    {<<"m", "e", "a", "t">>,
     <<"s", "e", "a", "f", "o", "o", "d">>,
     <<"p", "o", "u", "l", "t", "r", "y">>,
     <<"b", "e", "e", "f">>,
     <<"c", "h", "i", "c", "k", "e", "n">>,
     <<"p", "o", "r", "k">>,
     <<"f", "i", "s", "h">>,
     <<"s", "a", "l", "m", "o", "n">>,
     <<"t", "u", "n", "a">>,
     <<"s", "h", "r", "i", "m", "p">>,
     <<"t", "u", "r", "k", "e", "y">>,
     <<"b", "a", "c", "o", "n">>,
     <<"h", "a", "m">>,
     <<"s", "t", "e", "a", "k">>,
     <<"g", "r", "o", "u", "n", "d">>}

\* /dairy|milk|cheese|yogurt|.../
DairyKeywords ==
    {<<"d", "a", "i", "r", "y">>,
     <<"m", "i", "l", "k">>,
     <<"c", "h", "e", "e", "s", "e">>,
     <<"y", "o", "g", "u", "r", "t">>,
     <<"b", "u", "t", "t", "e", "r">>,
     <<"c", "r", "e", "a", "m">>,
     <<"e", "g", "g">>,
     <<"s", "o", "u", "r", " ", "c", "r", "e", "a", "m">>,
     <<"c", "o", "t", "t", "a", "g", "e", " ", "c", "h", "e", "e", "s", "e">>,
     <<"m", "o", "z", "z", "a", "r", "e", "l", "l", "a">>,
     <<"c", "h", "e", "d", "d", "a", "r">>,
     <<"p", "a", "r", "m", "e", "s", "a", "n">>}

\* /bread|bakery|grain|pasta|.../
GrainsKeywords ==
    {<<"b", "r", "e", "a", "d">>,
     <<"b", "a", "k", "e", "r", "y">>,
     <<"g", "r", "a", "i", "n">>,
     <<"p", "a", "s", "t", "a">>,
     <<"r", "i", "c", "e">>,
     <<"c", "e", "r", "e", "a", "l">>,
     <<"f", "l", "o", "u", "r">>,
     <<"o", "a", "t">>,
     <<"q", "u", "i", "n", "o", "a">>,
     <<"t", "o", "r", "t", "i", "l", "l", "a">>,
     <<"b", "a", "g", "e", "l">>,
     <<"b", "u", "n">>,
     <<"r", "o", "l", "l">>,
     <<"n", "o", "o", "d", "l", "e">>,
     <<"s", "p", "a", "g", "h", "e", "t", "t", "i">>,
     <<"p", "e", "n", "n", "e">>}

\* /spice|condiment|oil|vinegar|.../
SpicesKeywords ==
    {<<"s", "p", "i", "c", "e">>,
     <<"c", "o", "n", "d", "i", "m", "e", "n", "t">>,
     <<"o", "i", "l">>,
     <<"v", "i", "n", "e", "g", "a", "r">>,
     <<"s", "a", "u", "c", "e">>,
     <<"s", "e", "a", "s", "o", "n", "i", "n", "g">>,
     <<"s", "a", "l", "t">>,
     <<"p", "e", "p", "p", "e", "r">>,
     <<"o", "r", "e", "g", "a", "n", "o">>,
     <<"b", "a", "s", "i", "l">>,
     <<"c", "u", "m", "i", "n">>,
     <<"p", "a", "p", "r", "i", "k", "a">>,
     <<"c", "i", "n", "n", "a", "m", "o", "n">>,
     <<"v", "a", "n", "i", "l", "l", "a">>,
     <<"m", "a", "y", "o">>,
     <<"m", "u", "s", "t", "a", "r", "d">>,
     <<"k", "e", "t", "c", "h", "u", "p">>,
     <<"s", "o", "y", " ", "s", "a", "u", "c", "e">>,
     <<"o", "l", "i", "v", "e", " ", "o", "i", "l">>}

\* /canned|jar|can|dried|.../
PantryKeywords ==
    {<<"c", "a", "n", "n", "e", "d">>,
     <<"j", "a", "r">>,
     <<"c", "a", "n">>,
     <<"d", "r", "i", "e", "d">>,
     <<"b", "a", "k", "i", "n", "g">>,
     <<"s", "u", "g", "a", "r">>,
     <<"s", "t", "o", "c", "k">>,
     <<"b", "r", "o", "t", "h">>,
     <<"b", "e", "a", "n">>,
     <<"t", "o", "m", "a", "t", "o", " ", "p", "a", "s", "t", "e">>,
     <<"c", "o", "c", "o", "n", "u", "t", " ", "m", "i", "l", "k">>}

\* str.match(/k1|k2|.../): some keyword occurs in str
Contains(str, word) ==
    \E i \in 1..(Len(str) - Len(word) + 1) :
        SubSeq(str, i, i + Len(word) - 1) = word

MatchesAny(str, keywords) == \E word \in keywords : Contains(str, word)

\* A mutation of categorizeIngredient that looks at spices first
categorizeIngredient_spicesFirst(aisle) ==
    LET aisleStr == toLowerCase(aisle)
    IN  IF MatchesAny(aisleStr, SpicesKeywords) THEN "spices"
        ELSE IF MatchesAny(aisleStr, ProduceKeywords) THEN "produce"
        ELSE IF MatchesAny(aisleStr, MeatKeywords) THEN "meat"
        ELSE IF MatchesAny(aisleStr, DairyKeywords) THEN "dairy"
        ELSE IF MatchesAny(aisleStr, GrainsKeywords) THEN "grains"
        ELSE IF MatchesAny(aisleStr, PantryKeywords) THEN "pantry"
        ELSE "other"

categorizeIngredient(aisle) ==
    LET aisleStr == toLowerCase(aisle)
    IN  IF MatchesAny(aisleStr, ProduceKeywords) THEN "produce"
        ELSE IF MatchesAny(aisleStr, MeatKeywords) THEN "meat"
        ELSE IF MatchesAny(aisleStr, DairyKeywords) THEN "dairy"
        ELSE IF MatchesAny(aisleStr, GrainsKeywords) THEN "grains"
        ELSE IF MatchesAny(aisleStr, SpicesKeywords) THEN "spices"
        ELSE IF MatchesAny(aisleStr, PantryKeywords) THEN "pantry"
        ELSE "other"

\* `ingredient.aisle || ingredient.name`: a missing or empty aisle is falsy
AisleOrName(ingredient) ==
    IF "aisle" \in DOMAIN ingredient /\ ingredient.aisle # <<>>
    THEN ingredient.aisle ELSE ingredient.name

\* A mutation of `ingredient.amount || 0` that takes every amount for 0
AmountOrZero_alwaysZero(ingredient) == 0

\* `ingredient.amount || 0` and `ingredient.unit || ''`
AmountOrZero(ingredient) ==
    IF "amount" \in DOMAIN ingredient THEN ingredient.amount ELSE 0

UnitOrEmpty(ingredient) ==
    IF "unit" \in DOMAIN ingredient THEN ingredient.unit ELSE ""

\* The ingredients of all planned meals, in the order the two forEach
\* loops visit them
RECURSIVE AllIngredients(_)
AllIngredients(meals) ==
    IF meals = <<>> THEN <<>>
    ELSE (IF "extendedIngredients" \in DOMAIN Head(meals).recipe
          THEN Head(meals).recipe.extendedIngredients ELSE <<>>)
         \o AllIngredients(Tail(meals))

\* The Map of generateShoppingListFromMealPlan as the sequence of its
\* values in insertion order
RECURSIVE collectIngredients(_, _)
collectIngredients(entries, ingredients) ==
    IF ingredients = <<>> THEN entries
    ELSE LET ingredient == Head(ingredients)
             name == ingredient.name
             has == \E k \in 1..Len(entries) : entries[k].name = name
             k0 == CHOOSE k \in 1..Len(entries) : entries[k].name = name
         IN  IF has
             THEN collectIngredients(
                      [entries EXCEPT ![k0].amount = @ + AmountOrZero(ingredient)],
                      Tail(ingredients))
             ELSE collectIngredients(
                      Append(entries,
                             [name |-> name,
                              category |-> categorizeIngredient(AisleOrName(ingredient)),
                              amount |-> AmountOrZero(ingredient),
                              unit |-> UnitOrEmpty(ingredient),
                              checked |-> FALSE]),
                      Tail(ingredients))

generateShoppingListFromMealPlan(ls) ==
    collectIngredients(<<>>, AllIngredients(getAllMealsFromPlan(ls)))

----------------------------------------------------------------------------
(* User preferences (read by the nutrition views) *)

defaultPreferences ==
    [diets |-> <<>>, allergies |-> <<>>, cuisines |-> <<>>,
     calorieGoal |-> 2000, proteinGoal |-> 150, carbsGoal |-> 250, fatGoal |-> 65,
     maxCookingTime |-> "", lastUpdated |-> null]

getUserPreferences(ls) == getFromStorageOr(ls, USER_PREFERENCES, defaultPreferences)

----------------------------------------------------------------------------
(* Nutrition dashboard *)

\* Math.round of an amount held in tenths
RoundTenths(a) == (a + 5) \div 10

\* A mutation of RoundSeventh that truncates
RoundSeventh_truncates(n) == n \div 7

\* Math.round(n / 7) for an integer n
RoundSeventh(n) == (2 * n + 7) \div 14

\* A mutation of NutrientOrZero that takes the first entry whatever its name
NutrientOrZero_anyName(nutrients, name) ==
    IF nutrients # <<>> THEN RoundTenths(nutrients[1].amount) ELSE 0

\* nutrients.find(n => n.name === name), rounded, or 0 when there is none
NutrientOrZero(nutrients, name) ==
    IF \E k \in 1..Len(nutrients) : nutrients[k].name = name
    THEN RoundTenths(nutrients[CHOOSE k \in 1..Len(nutrients) :
                                  /\ nutrients[k].name = name
                                  /\ \A j \in 1..(k - 1) : nutrients[j].name # name].amount)
    ELSE 0

extractNutritionFromRecipe(recipe) ==
    IF "nutrition" \in DOMAIN recipe /\ "nutrients" \in DOMAIN recipe.nutrition
    THEN LET nutrients == recipe.nutrition.nutrients
         IN  [calories |-> NutrientOrZero(nutrients, "Calories"),
              protein |-> NutrientOrZero(nutrients, "Protein"),
              carbs |-> NutrientOrZero(nutrients, "Carbohydrates"),
              fat |-> NutrientOrZero(nutrients, "Fat")]
    ELSE [calories |-> 0, protein |-> 0, carbs |-> 0, fat |-> 0]

\* The sum of one nutrient over the filled slots of the given days
RECURSIVE SumOver(_, _, _)
SumOver(mealPlan, slots, nutrient) ==
    IF slots = <<>> THEN 0
    ELSE LET meal == mealPlan[Head(slots)[1]][Head(slots)[2]]
         IN  (IF IsMeal(meal) THEN extractNutritionFromRecipe(meal)[nutrient] ELSE 0)
             + SumOver(mealPlan, Tail(slots), nutrient)

\* Object.values(mealPlan[day]) for each of the given days that the plan has
RECURSIVE SlotsOf(_, _)
SlotsOf(mealPlan, days) ==
    IF days = <<>> THEN <<>>
    ELSE (IF Head(days) \in DOMAIN mealPlan
          THEN LET keys == ObjectKeys(mealPlan[Head(days)], MEAL_TYPES)
               IN  [i \in 1..Len(keys) |-> <<Head(days), keys[i]>>]
          ELSE <<>>)
         \o SlotsOf(mealPlan, Tail(days))

\* updateWeeklyChart: the calories of each day
dayCalories(ls) ==
    LET mealPlan == getMealPlan(ls)
    IN  [i \in 1..Len(DAYS) |->
            SumOver(mealPlan, SlotsOf(mealPlan, <<DAYS[i]>>), "calories")]

\* loadWeekNutrition: what updateMainStats and updateWeeklyChart are given
loadWeekNutrition(ls) ==
    LET mealPlan == getMealPlan(ls)
        slots == SlotsOf(mealPlan, DAYS)
        preferences == getUserPreferences(ls)
    IN  [avgCalories |-> RoundSeventh(SumOver(mealPlan, slots, "calories")),
         avgProtein |-> RoundSeventh(SumOver(mealPlan, slots, "protein")),
         avgCarbs |-> RoundSeventh(SumOver(mealPlan, slots, "carbs")),
         avgFat |-> RoundSeventh(SumOver(mealPlan, slots, "fat")),
         calorieGoal |-> preferences.calorieGoal,
         proteinGoal |-> preferences.proteinGoal,
         carbsGoal |-> preferences.carbsGoal,
         fatGoal |-> preferences.fatGoal,
         chart |-> dayCalories(ls)]

\* loadNutritionData(view).  loadTodayNutrition begins with
\* toLocaleDateString('en-US', { weekday: 'lowercase' }); 'lowercase' is not
\* a weekday format (narrow, short, long), so the call throws a RangeError
\* before anything is read.  The month view is the week view.
loadNutritionData(ls, view) ==
    IF view = "today" THEN [threw |-> "RangeError"]
    ELSE loadWeekNutrition(ls)

----------------------------------------------------------------------------
(* Meal plan: actions *)

\* Arguments callers pass for day and mealType: recognized names, names
\* that are not days (unknown, wrongly capitalised, and one that every
\* object inherits), and a meal key that is not a meal type.
DayArgs == {"monday", "sunday", "funday", "Monday", "constructor"}
MealArgs == {"dinner", "snack"}

AddMealToPlan ==
    \E day \in DayArgs, mealType \in MealArgs, recipe \in Recipes :
        LET r == addMealToPlan(localStorage, day, mealType, recipe)
        IN  /\ localStorage' = r.ls
            /\ result' = [op |-> "addMealToPlan", day |-> day,
                          mealType |-> mealType, recipe |-> recipe, ret |-> r.ret]
            /\ UNCHANGED <<now, quotaExceeded, inflight, page>>

RemoveMealFromPlan ==
    \E day \in DayArgs, mealType \in MealArgs :
        LET r == removeMealFromPlan(localStorage, day, mealType)
        IN  /\ localStorage' = r.ls
            /\ result' = [op |-> "removeMealFromPlan", day |-> day,
                          mealType |-> mealType, ret |-> r.ret]
            /\ UNCHANGED <<now, quotaExceeded, inflight, page>>

ClearMealPlan ==
    /\ localStorage' = clearMealPlan(localStorage).ls
    /\ result' = [op |-> "clearMealPlan", ret |-> "undefined"]
    /\ UNCHANGED <<now, quotaExceeded, inflight, page>>

GetMealPlan ==
    /\ result' = [op |-> "getMealPlan", ret |-> getMealPlan(localStorage)]
    /\ UNCHANGED <<localStorage, now, quotaExceeded, inflight, page>>

GetAllMealsFromPlan ==
    /\ result' = [op |-> "getAllMealsFromPlan",
                  ret |-> getAllMealsFromPlan(localStorage)]
    /\ UNCHANGED <<localStorage, now, quotaExceeded, inflight, page>>

GenerateShoppingListFromMealPlan ==
    /\ result' = [op |-> "generateShoppingListFromMealPlan",
                  ret |-> generateShoppingListFromMealPlan(localStorage)]
    /\ UNCHANGED <<localStorage, now, quotaExceeded, inflight, page>>

LoadNutritionData ==
    \E view \in {"today", "week", "month"} :
        /\ result' = [op |-> "loadNutritionData", view |-> view,
                      shown |-> loadNutritionData(localStorage, view)]
        /\ UNCHANGED <<localStorage, now, quotaExceeded, inflight, page>>

NextMealPlan ==
    \/ AddMealToPlan
    \/ RemoveMealFromPlan
    \/ ClearMealPlan
    \/ GetMealPlan
    \/ GetAllMealsFromPlan
    \/ GenerateShoppingListFromMealPlan
    \/ LoadNutritionData

\* The meal plan with a storage that accepts every write
SpecMealPlan == Init /\ [][NextMealPlan]_vars

----------------------------------------------------------------------------
(* Shopping list: actions *)

\* Items callers add: names that differ in case only, another name, with
\* and without a category
ItemNames == {Tomato, tomato, Onion}
ItemArgs == {[name |-> n] : n \in ItemNames}
            \cup {[name |-> n, category |-> "produce"] : n \in ItemNames}

\* The clock may advance between the two reads of Date.now() in one call
AddToShoppingList ==
    \E item \in ItemArgs, addedTime \in {now, now + 1} :
        /\ addedTime <= MaxClock
        /\ LET r == addToShoppingList(localStorage, now, addedTime, item)
           IN  /\ localStorage' = r.ls
               /\ result' = [op |-> "addToShoppingList", item |-> item, ret |-> r.ret]
        /\ now' = addedTime
        /\ UNCHANGED <<quotaExceeded, inflight, page>>

RemoveFromShoppingList ==
    \E itemId \in Times :
        LET r == removeFromShoppingList(localStorage, itemId)
        IN  /\ localStorage' = r.ls
            /\ result' = [op |-> "removeFromShoppingList", itemId |-> itemId,
                          ret |-> r.ret]
            /\ UNCHANGED <<now, quotaExceeded, inflight, page>>

ToggleShoppingItem ==
    \E itemId \in Times :
        LET r == toggleShoppingItem(localStorage, itemId)
        IN  /\ localStorage' = r.ls
            /\ result' = [op |-> "toggleShoppingItem", itemId |-> itemId,
                          ret |-> r.ret]
            /\ UNCHANGED <<now, quotaExceeded, inflight, page>>

ClearShoppingList ==
    /\ localStorage' = clearShoppingList(localStorage).ls
    /\ result' = [op |-> "clearShoppingList", ret |-> "undefined"]
    /\ UNCHANGED <<now, quotaExceeded, inflight, page>>

NextShopping ==
    \/ AddToShoppingList
    \/ RemoveFromShoppingList
    \/ ToggleShoppingItem
    \/ ClearShoppingList
    \/ Tick

\* The shopping list with a storage that accepts every write
SpecShopping == Init /\ [][NextShopping]_vars

\* The shopping list with a storage whose writes can fail
NextShoppingQuota == NextShopping \/ QuotaChange

SpecShoppingQuota == Init /\ [][NextShoppingQuota]_vars

----------------------------------------------------------------------------
(* C1: favorites are unique by recipe id, and addToFavorites rejects a     *)
(* duplicate without touching the collection                               *)

NoDuplicateFavorites ==
    LET favorites == getFavorites(localStorage)
    IN  \A i, j \in 1..Len(favorites) :
            i # j => ~SameId(favorites[i], favorites[j])

\* What a step of addToFavorites(recipe) does to the stored collection
AddToFavoritesStep ==
    result'.op = "addToFavorites" =>
        LET before == getFavorites(localStorage)
            present == \E i \in 1..Len(before) : IdIs(before[i], result'.recipe.id)
        IN  IF present
            THEN /\ result'.ret = "false"
                 /\ localStorage' = localStorage
            ELSE /\ result'.ret = "true"
                 /\ getFavorites(localStorage') =
                        before \o <<WithAddedAt(result'.recipe, now)>>

\* C1: in every reachable state no two favorites share a recipe id; a call
\* of addToFavorites with an id already present returns false and leaves
\* the stored collection (entries, order, addedAt) as it was, and a call
\* with a new id appends the recipe and returns true.
C1_FavoritesUniqueById == []NoDuplicateFavorites /\ [][AddToFavoritesStep]_vars

\* A duplicate add was rejected while the collection held two favorites,
\* the second of which came in later than the first.
C1_Witness ==
    /\ result.op = "addToFavorites"
    /\ result.ret = "false"
    /\ Len(getFavorites(localStorage)) = 2
    /\ getFavorites(localStorage)[1].addedAt < getFavorites(localStorage)[2].addedAt

----------------------------------------------------------------------------
(* C2: the shape of the meal plan *)

\* C2: in every reachable state getMealPlan() has exactly the seven weekday
\* keys, each mapping to a record with exactly the slots breakfast, lunch
\* and dinner, each slot holding null or a recipe.
C2_PlanHasSevenDaysThreeSlots ==
    LET mealPlan == getMealPlan(localStorage)
    IN  /\ DOMAIN mealPlan = Range(DAYS)
        /\ \A day \in DOMAIN mealPlan :
              /\ DOMAIN mealPlan[day] = Range(MEAL_TYPES)
              /\ \A mealType \in DOMAIN mealPlan[day] :
                    mealPlan[day][mealType] \in Recipes \cup {null}

----------------------------------------------------------------------------
(* C3, C4: rejected arguments *)

IsPlanMutation(r) == r.op \in {"addMealToPlan", "removeMealFromPlan"}

\* C3: addMealToPlan and removeMealFromPlan called with a day that is not
\* one of the seven weekday names return false and leave the persisted
\* meal plan and the result of getMealPlan() unchanged.
C3_UnknownDayRejected ==
    [][(IsPlanMutation(result') /\ result'.day \notin Range(DAYS)) =>
          /\ result'.ret = "false"
          /\ localStorage' = localStorage
          /\ getMealPlan(localStorage') = getMealPlan(localStorage)]_vars

\* C4: addMealToPlan and removeMealFromPlan called with a valid day and a
\* meal key outside breakfast, lunch, dinner return false and leave the
\* meal plan unchanged.
C4_UnknownMealTypeRejected ==
    [][(/\ IsPlanMutation(result')
        /\ result'.day \in Range(DAYS)
        /\ result'.mealType \notin Range(MEAL_TYPES)) =>
          /\ result'.ret = "false"
          /\ localStorage' = localStorage]_vars

----------------------------------------------------------------------------
(* C9: a mutation of a recognized slot touches that slot only *)

\* The two plans have the same days and slots and agree on every slot
\* other than (day, mealType)
SameExceptSlot(p, q, day, mealType) ==
    /\ DOMAIN p = DOMAIN q
    /\ \A d \in DOMAIN p :
          /\ DOMAIN p[d] = DOMAIN q[d]
          /\ \A m \in DOMAIN p[d] :
                (d # day \/ m # mealType) => p[d][m] = q[d][m]

\* C9: for a recognized day and meal type addMealToPlan sets exactly that
\* slot to the recipe, whatever it held, and removeMealFromPlan sets
\* exactly that slot to null; both return true and leave every other slot
\* as it was.
C9_SlotWriteFrame ==
    [][(/\ IsPlanMutation(result')
        /\ result'.day \in Range(DAYS)
        /\ result'.mealType \in Range(MEAL_TYPES)) =>
          LET before == getMealPlan(localStorage)
              after == getMealPlan(localStorage')
              written == IF result'.op = "addMealToPlan"
                         THEN result'.recipe ELSE null
          IN  /\ result'.ret = "true"
              /\ after[result'.day][result'.mealType] = written
              /\ SameExceptSlot(before, after, result'.day, result'.mealType)]_vars

\* Monday's dinner was set to recipe 2 while Sunday's dinner holds recipe 1
\* and Monday's lunch is empty.
C9_Witness ==
    /\ result.op = "addMealToPlan"
    /\ result.ret = "true"
    /\ result.day = "monday"
    /\ result.mealType = "dinner"
    /\ result.recipe = Recipe(2)
    /\ getMealPlan(localStorage)["monday"]["dinner"] = Recipe(2)
    /\ getMealPlan(localStorage)["sunday"]["dinner"] = Recipe(1)
    /\ getMealPlan(localStorage)["monday"]["lunch"] = null

----------------------------------------------------------------------------
(* C5: shopping item ids *)

\* C5: in every reachable state the items of the shopping list have
\* pairwise distinct ids, also when several are inserted within the same
\* millisecond, so that toggleShoppingItem(id) and
\* removeFromShoppingList(id) address at most one item.
C5_ShoppingIdsDistinct ==
    LET list == getShoppingList(localStorage)
    IN  \A i, j \in 1..Len(list) : i # j => list[i].id # list[j].id

----------------------------------------------------------------------------
(* C6: shopping item names *)

NoDuplicateNames ==
    LET list == getShoppingList(localStorage)
    IN  \A i, j \in 1..Len(list) :
            i # j => toLowerCase(list[i].name) # toLowerCase(list[j].name)

\* A call whose name is already listed, ignoring case, is rejected and
\* changes nothing.
DuplicateNameStep ==
    (/\ result'.op = "addToShoppingList"
     /\ \E i \in 1..Len(getShoppingList(localStorage)) :
            toLowerCase(getShoppingList(localStorage)[i].name)
                = toLowerCase(result'.item.name)) =>
        /\ result'.ret = "false"
        /\ localStorage' = localStorage

\* C6: in every reachable state no two shopping items have names that are
\* equal ignoring case, and addToShoppingList with a name that matches an
\* existing item case-insensitively returns false and leaves the list,
\* the existing entry included, unchanged.
C6_ShoppingNamesUnique == []NoDuplicateNames /\ [][DuplicateNameStep]_vars

\* "tomato" was rejected while the list holds "Tomato" and "Onion"
C6_Witness ==
    /\ result.op = "addToShoppingList"
    /\ result.ret = "false"
    /\ result.item.name = tomato
    /\ Len(getShoppingList(localStorage)) = 2
    /\ getShoppingList(localStorage)[1].name = Tomato
    /\ getShoppingList(localStorage)[2].name = Onion

----------------------------------------------------------------------------
(* C7: a mutation that reports true has been persisted *)

\* C7: whenever toggleShoppingItem, addToShoppingList, addToFavorites or
\* addMealToPlan (on a recognized slot) returns true, the following read
\* returns the changed state, also when the storage write can fail.
C7_TrueMeansPersisted ==
    [][("ret" \in DOMAIN result' /\ result'.ret = "true") =>
        /\ result'.op = "toggleShoppingItem" =>
              LET before == getShoppingList(localStorage)
                  after == getShoppingList(localStorage')
                  k == findIndexById(before, result'.itemId)
              IN  /\ Len(after) = Len(before)
                  /\ after[k].checked = ~before[k].checked
        /\ result'.op = "addToShoppingList" =>
              \E i \in 1..Len(getShoppingList(localStorage')) :
                  getShoppingList(localStorage')[i].name = result'.item.name
        /\ result'.op = "addToFavorites" =>
              isInFavorites(localStorage', result'.recipe.id)
        /\ (/\ result'.op = "addMealToPlan"
            /\ result'.day \in Range(DAYS)
            /\ result'.mealType \in Range(MEAL_TYPES)) =>
              getMealPlan(localStorage')[result'.day][result'.mealType]
                  = result'.recipe]_vars

----------------------------------------------------------------------------
(* C8: removeFromFavorites *)

RemoveIsNoChangeToStorage ==
    (/\ result'.op = "removeFromFavorites"
     /\ ~isInFavorites(localStorage, result'.recipeId)) =>
        localStorage' = localStorage

RemoveTakesOutThatEntry ==
    (/\ result'.op = "removeFromFavorites"
     /\ isInFavorites(localStorage, result'.recipeId)) =>
        LET before == getFavorites(localStorage)
            after == getFavorites(localStorage')
        IN  /\ Len(after) = Len(before) - 1
            /\ after = SelectSeq(before, LAMBDA fav : ~IdIs(fav, result'.recipeId))

\* Once a removal has run, the same removal again changes nothing at all
RemoveAgainIsNoChange ==
    (/\ result.op = "removeFromFavorites"
     /\ result'.op = "removeFromFavorites"
     /\ result'.recipeId = result.recipeId) =>
        localStorage' = localStorage

\* C8: removeFromFavorites with an id that is not in favorites makes no
\* change to the stored favorites, also when no favorites record exists
\* yet, and calling it a second time again changes nothing; with an id
\* that is present it removes exactly that entry and keeps the others in
\* their order.
C8_RemoveAbsentLeavesStorage ==
    [][/\ RemoveIsNoChangeToStorage
       /\ RemoveAgainIsNoChange
       /\ RemoveTakesOutThatEntry]_vars

RemoveIsNoChangeToCollection ==
    (/\ result'.op = "removeFromFavorites"
     /\ ~isInFavorites(localStorage, result'.recipeId)) =>
        /\ getFavorites(localStorage') = getFavorites(localStorage)
        /\ localStorage[FAVORITES] # NoItem => localStorage' = localStorage
        /\ \A k \in STORAGE_KEYS \ {FAVORITES} : localStorage'[k] = localStorage[k]

\* The part of C8 that holds: removeFromFavorites with an id that is not
\* in favorites leaves the collection getFavorites() returns unchanged (a
\* stored record is left as it is; when no record exists yet an empty one
\* is written), and calling it a second time changes nothing; with an id
\* that is present it removes exactly that entry and keeps the others in
\* order.
C8_RemoveAbsentLeavesCollection ==
    [][/\ RemoveIsNoChangeToCollection
       /\ RemoveAgainIsNoChange
       /\ RemoveTakesOutThatEntry]_vars

\* An absent id was removed on a store without a favorites record, which
\* now holds an empty collection
C8_Witness ==
    /\ result.op = "removeFromFavorites"
    /\ localStorage[FAVORITES] = JSONstringify(<<>>)
    /\ now = 0

----------------------------------------------------------------------------
(* C10 *)

AllSlotsNull(mealPlan) ==
    /\ DOMAIN mealPlan = Range(DAYS)
    /\ \A day \in Range(DAYS) :
           /\ DOMAIN mealPlan[day] = Range(MEAL_TYPES)
           /\ \A mealType \in Range(MEAL_TYPES) : mealPlan[day][mealType] = null

\* A mutation the plan's contract accepts: clearMealPlan, or a slot write
\* that names one of the seven days and one of the three meal types
IsAcceptedPlanMutation(event) ==
    \/ event.op = "clearMealPlan"
    \/ /\ event.op \in {"addMealToPlan", "removeMealFromPlan"}
       /\ event.day \in Range(DAYS)
       /\ event.mealType \in Range(MEAL_TYPES)

MealPlanKeyAppears ==
    localStorage[MEAL_PLAN] = NoItem /\ localStorage'[MEAL_PLAN] # NoItem

\* C10: with no meal-plan record getMealPlan() returns all 21 slots as
\* null, and the meal-plan key goes from absent to present only on an
\* accepted mutation (addMealToPlan, removeMealFromPlan, clearMealPlan):
\* reads, derivations, the nutrition views and rejected mutations leave it
\* absent.
C10_DefaultPersistedOnlyByAcceptedMutation ==
    /\ [](localStorage[MEAL_PLAN] = NoItem => AllSlotsNull(getMealPlan(localStorage)))
    /\ [][MealPlanKeyAppears => IsAcceptedPlanMutation(result')]_vars

----------------------------------------------------------------------------
(* C11 *)

\* The non-null slots of the 7 x 3 plan as entries, day by day in the order
\* of DAYS and within a day in the order of MEAL_TYPES
RECURSIVE EntriesOfSlots(_, _)
EntriesOfSlots(mealPlan, slots) ==
    IF slots = <<>> THEN <<>>
    ELSE LET day == Head(slots)[1]
             mealType == Head(slots)[2]
         IN  (IF mealPlan[day][mealType] # null
              THEN <<[day |-> day, mealType |-> mealType,
                      recipe |-> mealPlan[day][mealType]]>>
              ELSE <<>>)
             \o EntriesOfSlots(mealPlan, Tail(slots))

TheSlots ==
    [k \in 1..(Len(DAYS) * Len(MEAL_TYPES)) |->
        <<DAYS[((k - 1) \div Len(MEAL_TYPES)) + 1],
          MEAL_TYPES[((k - 1) % Len(MEAL_TYPES)) + 1]>>]

\* C11: after any sequence of meal-plan operations getAllMealsFromPlan()
\* returns exactly one {day, mealType, recipe} entry per non-null slot and
\* none for null slots, ordered by day (monday..sunday) and within a day
\* by meal (breakfast, lunch, dinner), however the slots were filled.
C11_AllMealsAreTheFilledSlotsInOrder ==
    [][result'.op = "getAllMealsFromPlan" =>
          result'.ret = EntriesOfSlots(getMealPlan(localStorage), TheSlots)]_vars

----------------------------------------------------------------------------
(* C12 *)

Flipped(item) == [item EXCEPT !.checked = ~item.checked]

\* A toggleShoppingItem step flips the items that have the id and leaves
\* every other item, and the order, as they were; with no such item it
\* returns false and changes nothing
ToggleFlipsThatItem ==
    result'.op = "toggleShoppingItem" =>
        LET before == getShoppingList(localStorage)
            after == getShoppingList(localStorage')
            itemId == result'.itemId
        IN  IF \E k \in 1..Len(before) : before[k].id = itemId
            THEN /\ result'.ret = "true"
                 /\ Len(after) = Len(before)
                 /\ \A k \in 1..Len(before) :
                        after[k] = IF before[k].id = itemId
                                   THEN Flipped(before[k]) ELSE before[k]
            ELSE /\ result'.ret = "false"
                 /\ localStorage' = localStorage

\* Toggling an existing id twice gives the list back
DoubleToggleRestores ==
    \A itemId \in Times :
        (\E k \in 1..Len(getShoppingList(localStorage)) :
             getShoppingList(localStorage)[k].id = itemId) =>
            getShoppingList(toggleShoppingItem(
                toggleShoppingItem(localStorage, itemId).ls, itemId).ls)
                = getShoppingList(localStorage)

\* C12: toggleShoppingItem(id) flips the checked flag of the item with
\* that id and of no other item, leaving names, categories, ids and order
\* unchanged; when no item has that id it returns false and the list is
\* unchanged; toggling the same existing id twice restores the list.
C12_ToggleFlipsOnlyThatItem ==
    []DoubleToggleRestores /\ [][ToggleFlipsThatItem]_vars

----------------------------------------------------------------------------
(* Recent searches *)

MaxQueries == 11          \* the session draws its queries from this many
RecentSearchesLimit == 10 \* filtered.slice(0, 10)

getRecentSearches(ls) == getFromStorageOr(ls, RECENT_SEARCHES, <<>>)

\* White space as String.prototype.trim sees it
WhiteSpace == {" ", "\t", "\n"}

RECURSIVE trimStart(_)
trimStart(str) ==
    IF str # <<>> /\ Head(str) \in WhiteSpace THEN trimStart(Tail(str)) ELSE str

RECURSIVE trimEnd(_)
trimEnd(str) ==
    IF str # <<>> /\ str[Len(str)] \in WhiteSpace
    THEN trimEnd(SubSeq(str, 1, Len(str) - 1)) ELSE str

trim(str) == trimEnd(trimStart(str))

\* A mutation of slice that keeps the last n elements
slice0_fromEnd(seq, n) ==
    SubSeq(seq, IF Len(seq) < n THEN 1 ELSE Len(seq) - n + 1, Len(seq))

\* searches.slice(0, n)
slice0(seq, n) == SubSeq(seq, 1, IF Len(seq) < n THEN Len(seq) ELSE n)

\* A mutation of addRecentSearch that forgets to remove the existing entry
addRecentSearch_keepsOld(ls, query) ==
    IF query = <<>> \/ trim(query) = <<>>
    THEN [ls |-> ls, ret |-> "undefined"]
    ELSE [ls |-> saveToStorage(ls, RECENT_SEARCHES,
                     slice0(<<query>> \o getRecentSearches(ls), RecentSearchesLimit)).ls,
          ret |-> "undefined"]

addRecentSearch(ls, query) ==
    IF query = <<>> \/ trim(query) = <<>>
    THEN [ls |-> ls, ret |-> "undefined"]
    ELSE LET searches == getRecentSearches(ls)
             filtered == filter(searches, LAMBDA s : s # query)
             limited == slice0(<<query>> \o filtered, RecentSearchesLimit)
         IN  [ls |-> saveToStorage(ls, RECENT_SEARCHES, limited).ls,
              ret |-> "undefined"]

clearRecentSearches(ls) ==
    [ls |-> saveToStorage(ls, RECENT_SEARCHES, <<>>).ls, ret |-> "undefined"]

\* The queries of a session, in the order in which it comes to them: a
\* query with white space around it, then plain queries
Queries ==
    [i \in 1..MaxQueries |->
        IF i = 1 THEN <<" ", "q", "a", " ">> ELSE <<"q", LowerLetters[i - 1]>>]

\* The empty string and a string of white space only
BlankQueries == {<<>>, <<" ", "\t">>}

IsStored(searches, query) == \E k \in 1..Len(searches) : searches[k] = query

\* The session repeats its latest query or the one before it, moves on to
\* its next query (the one after the furthest it has stored), or submits
\* a blank
SessionQueries(searches) ==
    BlankQueries
    \cup {Queries[i] : i \in {i \in 1..MaxQueries :
              /\ \A j \in i..MaxQueries : ~IsStored(searches, Queries[j])
              /\ i > 1 => IsStored(searches, Queries[i - 1])}}
    \cup {searches[k] : k \in {1, 2} \cap (1..Len(searches))}

AddRecentSearch ==
    \E query \in SessionQueries(getRecentSearches(localStorage)) :
        /\ localStorage' = addRecentSearch(localStorage, query).ls
        /\ result' = [op |-> "addRecentSearch", query |-> query, ret |-> "undefined"]
        /\ UNCHANGED <<now, quotaExceeded, inflight, page>>

ClearRecentSearches ==
    /\ localStorage' = clearRecentSearches(localStorage).ls
    /\ result' = [op |-> "clearRecentSearches", ret |-> "undefined"]
    /\ UNCHANGED <<now, quotaExceeded, inflight, page>>

GetRecentSearches ==
    /\ result' = [op |-> "getRecentSearches", ret |-> getRecentSearches(localStorage)]
    /\ UNCHANGED <<localStorage, now, quotaExceeded, inflight, page>>

NextRecentSearches ==
    \/ AddRecentSearch
    \/ ClearRecentSearches
    \/ GetRecentSearches

SpecRecentSearches == Init /\ [][NextRecentSearches]_vars

----------------------------------------------------------------------------
(* C13 *)

\* C13: in every state reachable by addRecentSearch and clearRecentSearches
\* the recent-searches sequence contains no duplicate query and has at
\* most 10 entries.
C13_RecentSearchesDistinctAndCapped ==
    LET searches == getRecentSearches(localStorage)
    IN  /\ \A i, j \in 1..Len(searches) : searches[i] = searches[j] => i = j
        /\ Len(searches) <= 10

\* A full sequence whose second entry was searched again
C13_Witness ==
    LET searches == getRecentSearches(localStorage)
    IN  /\ result.op = "addRecentSearch"
        /\ Len(searches) = 10
        /\ searches[1] = result.query
        /\ searches[1] = Queries[9]
        /\ searches[2] = Queries[10]

----------------------------------------------------------------------------
(* C14 *)

IsPrefix(p, q) == Len(p) <= Len(q) /\ SubSeq(q, 1, Len(p)) = p

IsBlank(query) == \A k \in 1..Len(query) : query[k] \in WhiteSpace

AddRecentSearchStep ==
    result'.op = "addRecentSearch" =>
        LET before == getRecentSearches(localStorage)
            after == getRecentSearches(localStorage')
            query == result'.query
            others == SelectSeq(before, LAMBDA s : s # query)
        IN  IF IsBlank(query)
            THEN localStorage' = localStorage
            ELSE /\ after # <<>>
                 /\ after[1] = query
                 /\ IsPrefix(Tail(after), others)
                 /\ Len(after) = IF Len(others) + 1 > 10 THEN 10 ELSE Len(others) + 1

\* C14: addRecentSearch(q) with a non-blank q makes q the first entry,
\* keeps the other previously stored queries in their relative order and,
\* if the result would exceed 10, drops only the oldest (last) entries;
\* with an empty or whitespace-only q it leaves the stored sequence
\* unchanged.
C14_AddRecentSearchMovesToFront == [][AddRecentSearchStep]_vars

\* The eleventh query was added to a full sequence, whose oldest entry went
C14_Witness ==
    LET searches == getRecentSearches(localStorage)
    IN  /\ result.op = "addRecentSearch"
        /\ result.query = Queries[11]
        /\ Len(searches) = 10
        /\ searches[1] = Queries[11]
        /\ ~IsStored(searches, Queries[1])

----------------------------------------------------------------------------
(* User preferences: the store's operations *)

\* A mutation of saveUserPreferences that keeps the fields of the stored
\* record which the new one does not have
saveUserPreferences_merges(ls, preferences) ==
    LET stored == getUserPreferences(ls)
    IN  [ls |-> saveToStorage(ls, USER_PREFERENCES,
                    [k \in DOMAIN stored \cup DOMAIN preferences |->
                        IF k \in DOMAIN preferences THEN preferences[k]
                        ELSE stored[k]]).ls,
         ret |-> "undefined"]

saveUserPreferences(ls, preferences) ==
    [ls |-> saveToStorage(ls, USER_PREFERENCES, preferences).ls, ret |-> "undefined"]

----------------------------------------------------------------------------
(* Preferences page *)

Digits == <<"0", "1", "2", "3", "4", "5", "6", "7", "8", "9">>

IsDigit(c) == \E d \in 1..10 : Digits[d] = c

DigitValue(c) == (CHOOSE d \in 1..10 : Digits[d] = c) - 1

\* The value of the longest prefix of str that consists of digits
RECURSIVE DigitsPrefixValue(_, _)
DigitsPrefixValue(str, acc) ==
    IF str = <<>> \/ ~IsDigit(Head(str)) THEN acc
    ELSE DigitsPrefixValue(Tail(str), 10 * acc + DigitValue(Head(str)))

\* parseInt(str): leading white space is skipped, a sign is read, then
\* digits up to the first character that is not one; NaN without a digit
parseInt(str) ==
    LET s == trimStart(str)
        negative == s # <<>> /\ Head(s) = "-"
        signed == s # <<>> /\ Head(s) \in {"-", "+"}
        rest == IF signed THEN Tail(s) ELSE s
    IN  IF rest = <<>> \/ ~IsDigit(Head(rest))
        THEN [isNaN |-> TRUE, value |-> 0]
        ELSE [isNaN |-> FALSE,
              value |-> IF negative THEN 0 - DigitsPrefixValue(rest, 0)
                        ELSE DigitsPrefixValue(rest, 0)]

\* `parseInt(str) || dflt`: NaN and 0 are falsy
parseIntOr(str, dflt) ==
    LET n == parseInt(str)
    IN  IF n.isNaN \/ n.value = 0 THEN dflt ELSE n.value

validatePreferences(prefs) ==
    /\ ~(prefs.calorieGoal < 1000 \/ prefs.calorieGoal > 5000)
    /\ ~(prefs.proteinGoal < 50 \/ prefs.proteinGoal > 300)
    /\ ~(prefs.carbsGoal < 50 \/ prefs.carbsGoal > 500)
    /\ ~(prefs.fatGoal < 20 \/ prefs.fatGoal > 150)

\* What the form holds when it is submitted
FormInputs ==
    [diets : {<<>>, <<"vegan">>},
     allergies : {<<>>},
     cuisines : {<<>>},
     calorieGoal : {<<>>, <<"9", "9", "9">>, <<"5", "0", "0", "0">>, <<"5", "0", "0", "1">>},
     proteinGoal : {<<"0">>, <<"4", "9">>, <<"5", "0">>},
     carbsGoal : {<<"a", "b", "c">>, <<"5", "0", "0">>, <<"5", "0", "1">>},
     fatGoal : {<<" ", "2", "0", "p", "x">>, <<"-", "5">>, <<"1", "5", "1">>},
     maxCookingTime : {""}]

\* handleSavePreferences(e)
handleSavePreferences(ls, t, form) ==
    LET preferences ==
            [diets |-> form.diets,
             allergies |-> form.allergies,
             cuisines |-> form.cuisines,
             calorieGoal |-> parseIntOr(form.calorieGoal, 2000),
             proteinGoal |-> parseIntOr(form.proteinGoal, 150),
             carbsGoal |-> parseIntOr(form.carbsGoal, 250),
             fatGoal |-> parseIntOr(form.fatGoal, 65),
             maxCookingTime |-> form.maxCookingTime,
             lastUpdated |-> t]
    IN  IF ~validatePreferences(preferences)
        THEN [ls |-> ls, toast |-> "error"]
        ELSE [ls |-> saveUserPreferences(ls, preferences).ls, toast |-> "success"]

\* handleResetPreferences(), the user having answered the confirm dialog
handleResetPreferences(ls, t, confirmed) ==
    IF ~confirmed THEN [ls |-> ls, toast |-> "none"]
    ELSE [ls |-> saveUserPreferences(ls,
                     [diets |-> <<>>, allergies |-> <<>>, cuisines |-> <<>>,
                      calorieGoal |-> 2000, proteinGoal |-> 150,
                      carbsGoal |-> 250, fatGoal |-> 65,
                      maxCookingTime |-> "", lastUpdated |-> t]).ls,
          toast |-> "info"]

\* What a preferences file can hold: text that is not JSON, JSON that is
\* null or not an object, or an object: a record exportPreferences wrote,
\* one whose goals were edited, or one without goals
PreferencesFiles ==
    {[kind |-> "unparseable"], [kind |-> "null"], [kind |-> "number"]}
    \cup {[kind |-> "object", value |-> v] : v \in
            {[defaultPreferences EXCEPT !.calorieGoal = 1800, !.lastUpdated = 0],
             [defaultPreferences EXCEPT !.calorieGoal = 99999, !.fatGoal = 0],
             [diets |-> <<"vegan">>]}}

\* reader.onload of importPreferences(file)
importPreferences(ls, file) ==
    IF file.kind # "object"
    THEN [ls |-> ls, toast |-> "error"]
    ELSE [ls |-> saveUserPreferences(ls, file.value).ls, toast |-> "success"]

HandleSavePreferences ==
    \E form \in FormInputs :
        LET r == handleSavePreferences(localStorage, now, form)
        IN  /\ localStorage' = r.ls
            /\ result' = [op |-> "handleSavePreferences", toast |-> r.toast]
            /\ UNCHANGED <<now, quotaExceeded, inflight, page>>

HandleResetPreferences ==
    \E confirmed \in BOOLEAN :
        LET r == handleResetPreferences(localStorage, now, confirmed)
        IN  /\ localStorage' = r.ls
            /\ result' = [op |-> "handleResetPreferences", toast |-> r.toast]
            /\ UNCHANGED <<now, quotaExceeded, inflight, page>>

ImportPreferences ==
    \E file \in PreferencesFiles :
        LET r == importPreferences(localStorage, file)
        IN  /\ localStorage' = r.ls
            /\ result' = [op |-> "importPreferences", kind |-> file.kind,
                          toast |-> r.toast]
            /\ UNCHANGED <<now, quotaExceeded, inflight, page>>

NextPreferencesPage ==
    \/ HandleSavePreferences
    \/ HandleResetPreferences
    \/ ImportPreferences
    \/ Tick

SpecPreferencesPage == Init /\ [][NextPreferencesPage]_vars

----------------------------------------------------------------------------
(* C15 *)

GoalInRange(prefs, goal, low, high) ==
    /\ goal \in DOMAIN prefs
    /\ prefs[goal] >= low
    /\ prefs[goal] <= high

\* C15: the persisted preferences record has calorieGoal in [1000,5000],
\* proteinGoal in [50,300], carbsGoal in [50,500] and fatGoal in [20,150]
\* in every state reachable through the page controllers (form save,
\* reset, import), every call to saveUserPreferences passing goals that
\* were range-validated beforehand.
C15_PersistedGoalsInRange ==
    localStorage[USER_PREFERENCES] # NoItem =>
        LET prefs == getUserPreferences(localStorage)
        IN  /\ GoalInRange(prefs, "calorieGoal", 1000, 5000)
            /\ GoalInRange(prefs, "proteinGoal", 50, 300)
            /\ GoalInRange(prefs, "carbsGoal", 50, 500)
            /\ GoalInRange(prefs, "fatGoal", 20, 150)

----------------------------------------------------------------------------
(* User preferences: updatePreference and the store-level actions *)

\* An object in memory maps its keys to boxed values, so that a property
\* can hold undefined, which JSON does not have
undefined == [undefined |-> TRUE]

Box(v) == [value |-> v]

BoxAll(obj) == [k \in DOMAIN obj |-> Box(obj[k])]

\* obj[key] of an object read from storage: undefined for a missing key
GetProperty(obj, key) == IF key \in DOMAIN obj THEN Box(obj[key]) ELSE undefined

\* boxed[key] = boxedValue
AssignProperty(boxed, key, boxedValue) ==
    [k \in DOMAIN boxed \cup {key} |-> IF k = key THEN boxedValue ELSE boxed[k]]

\* What JSON.stringify keeps of an object: a property whose value is
\* undefined is left out
JSONvalue(boxed) ==
    [k \in {k \in DOMAIN boxed : boxed[k] # undefined} |-> boxed[k].value]

\* A mutation of updatePreference that writes the one field only
updatePreference_dropsOthers(ls, key, boxedValue) ==
    saveUserPreferences(ls, JSONvalue(AssignProperty(<<>>, key, boxedValue)))

updatePreference(ls, key, boxedValue) ==
    LET prefs == BoxAll(getUserPreferences(ls))
    IN  saveUserPreferences(ls, JSONvalue(AssignProperty(prefs, key, boxedValue)))

\* A mutation of clearAllStorage that clears the whole localStorage
clearAllStorage_clearsOrigin(ls) == [k \in DOMAIN ls |-> NoItem]

\* clearAllStorage(): removeItem for each of the five keys
clearAllStorage(ls) == [k \in DOMAIN ls |-> IF k \in STORAGE_KEYS THEN NoItem ELSE ls[k]]

\* Records callers save: two full records and one with a single field
PreferencesRecords ==
    {[defaultPreferences EXCEPT !.calorieGoal = 1800, !.diets = <<"vegan">>,
                                !.lastUpdated = 0],
     [defaultPreferences EXCEPT !.fatGoal = 70, !.maxCookingTime = "30",
                                !.lastUpdated = 1],
     [diets |-> <<"vegan">>]}

SaveUserPreferences ==
    \E preferences \in PreferencesRecords :
        /\ localStorage' = saveUserPreferences(localStorage, preferences).ls
        /\ result' = [op |-> "saveUserPreferences", preferences |-> preferences,
                      ret |-> "undefined"]
        /\ UNCHANGED <<now, quotaExceeded, inflight, page>>

UpdatePreferenceWith(key, boxedValue) ==
    /\ localStorage' = updatePreference(localStorage, key, boxedValue).ls
    /\ result' = [op |-> "updatePreference", key |-> key, value |-> boxedValue,
                  ret |-> "undefined"]
    /\ UNCHANGED <<now, quotaExceeded, inflight, page>>

\* updatePreference(key, value) with a goal, a cooking time, a selection,
\* a key the record does not have, and with undefined
UpdatePreference ==
    \/ \E goal \in {1, 2500} : UpdatePreferenceWith("calorieGoal", Box(goal))
    \/ UpdatePreferenceWith("maxCookingTime", Box("45"))
    \/ UpdatePreferenceWith("cuisines", Box(<<"thai">>))
    \/ UpdatePreferenceWith("theme", Box("dark"))
    \/ \E key \in {"fatGoal", "theme"} : UpdatePreferenceWith(key, undefined)

GetUserPreferences ==
    /\ result' = [op |-> "getUserPreferences", ret |-> getUserPreferences(localStorage)]
    /\ UNCHANGED <<localStorage, now, quotaExceeded, inflight, page>>

ClearAllStorage ==
    /\ localStorage' = clearAllStorage(localStorage)
    /\ result' = [op |-> "clearAllStorage", ret |-> "undefined"]
    /\ UNCHANGED <<now, quotaExceeded, inflight, page>>

NextPreferences ==
    \/ SaveUserPreferences
    \/ UpdatePreference
    \/ GetUserPreferences
    \/ ClearAllStorage

SpecPreferences == Init /\ [][NextPreferences]_vars

----------------------------------------------------------------------------
(* C16 *)

ReturnsDocumentedDefault ==
    localStorage[USER_PREFERENCES] = NoItem =>
        LET prefs == getUserPreferences(localStorage)
        IN  /\ prefs.calorieGoal = 2000
            /\ prefs.proteinGoal = 150
            /\ prefs.carbsGoal = 250
            /\ prefs.fatGoal = 65
            /\ prefs.diets = <<>>
            /\ prefs.allergies = <<>>
            /\ prefs.cuisines = <<>>

SaveOverwritesWhole ==
    result'.op = "saveUserPreferences" =>
        /\ localStorage'[USER_PREFERENCES] # NoItem
        /\ getUserPreferences(localStorage') = result'.preferences

ReadsKeepTheRecord ==
    result'.op = "getUserPreferences" =>
        /\ localStorage' = localStorage
        /\ result'.ret = getUserPreferences(localStorage)

\* C16: getUserPreferences() returns the documented default (calorieGoal
\* 2000, proteinGoal 150, carbsGoal 250, fatGoal 65, empty diets,
\* allergies and cuisines) when no preferences record is stored, and
\* otherwise exactly the record passed to the most recent
\* saveUserPreferences, which overwrites the previous record whole.
C16_DefaultOrLastSavedRecord ==
    /\ []ReturnsDocumentedDefault
    /\ [][SaveOverwritesWhole /\ ReadsKeepTheRecord]_vars

\* A record with a single field was saved and then read back
C16_Witness ==
    /\ result.op = "getUserPreferences"
    /\ localStorage[USER_PREFERENCES] # NoItem
    /\ result.ret = [diets |-> <<"vegan">>]

----------------------------------------------------------------------------
(* C17 *)

UpdatePreferenceStep ==
    result'.op = "updatePreference" =>
        LET before == getUserPreferences(localStorage)
            after == getUserPreferences(localStorage')
            key == result'.key
        IN  /\ GetProperty(after, key) = result'.value
            /\ DOMAIN after \ {key} = DOMAIN before \ {key}
            /\ \A k \in DOMAIN before \ {key} : after[k] = before[k]

\* C17: after updatePreference(key, value), getUserPreferences() has the
\* given value at that key and every other field equal to what
\* getUserPreferences() returned before the call (the stored value, or
\* the default when no record existed).
C17_UpdatePreferenceWritesOneField == [][UpdatePreferenceStep]_vars

\* A goal was updated on a store that held a saved record, whose other
\* fields are still there
C17_Witness ==
    /\ result.op = "updatePreference"
    /\ result.key = "calorieGoal"
    /\ localStorage[USER_PREFERENCES] # NoItem
    /\ getUserPreferences(localStorage).calorieGoal = 2500
    /\ "fatGoal" \in DOMAIN getUserPreferences(localStorage)
    /\ getUserPreferences(localStorage).maxCookingTime = "30"

----------------------------------------------------------------------------
(* Key-value adapter: direct calls and the failures it absorbs *)

\* Data passed to saveToStorage: arrays and an object that JSON can write,
\* and an object that refers to itself, on which JSON.stringify throws
AdapterData ==
    {[kind |-> "array", value |-> v] : v \in {<<>>, <<"pasta">>, <<"soup", "pasta">>}}
    \cup {[kind |-> "object", value |-> [calorieGoal |-> 2000]]}
    \cup {[kind |-> "circular", value |-> <<>>]}

AdapterKeys == {RECENT_SEARCHES, FAVORITES}

\* saveToStorage(key, data) for any data: the TypeError of JSON.stringify
\* is caught like the exception of setItem
saveToStorageData(ls, key, datum) ==
    IF datum.kind = "circular"
    THEN [ls |-> ls, ret |-> "false"]
    ELSE saveToStorage(ls, key, datum.value)

SaveToStorage ==
    \E key \in AdapterKeys, datum \in AdapterData :
        LET r == saveToStorageData(localStorage, key, datum)
        IN  /\ localStorage' = r.ls
            /\ result' = [op |-> "saveToStorage", key |-> key, datum |-> datum,
                          ret |-> r.ret]
            /\ UNCHANGED <<now, quotaExceeded, inflight, page>>

GetFromStorage ==
    \E key \in AdapterKeys :
        /\ result' = [op |-> "getFromStorage", key |-> key,
                      ret |-> getFromStorage(localStorage, key)]
        /\ UNCHANGED <<localStorage, now, quotaExceeded, inflight, page>>

RemoveFromStorage ==
    \E key \in AdapterKeys :
        LET r == removeFromStorage(localStorage, key)
        IN  /\ localStorage' = r.ls
            /\ result' = [op |-> "removeFromStorage", key |-> key, ret |-> r.ret]
            /\ UNCHANGED <<now, quotaExceeded, inflight, page>>

\* Something else writes text that is not JSON under one of the keys
ForeignWrite ==
    \E key \in AdapterKeys :
        /\ localStorage' = [localStorage EXCEPT ![key] = NotJSON]
        /\ result' = [op |-> "foreignWrite", key |-> key]
        /\ UNCHANGED <<now, quotaExceeded, inflight, page>>

NextAdapter ==
    \/ SaveToStorage
    \/ GetFromStorage
    \/ RemoveFromStorage
    \/ ForeignWrite
    \/ QuotaChange

SpecAdapter == Init /\ [][NextAdapter]_vars

----------------------------------------------------------------------------
(* C18 *)

SaveToStorageStep ==
    result'.op = "saveToStorage" =>
        IF quotaExceeded \/ result'.datum.kind = "circular"
        THEN /\ result'.ret = "false"
             /\ localStorage' = localStorage
        ELSE /\ result'.ret = "true"
             /\ localStorage'[result'.key] # NoItem
             /\ getFromStorage(localStorage', result'.key) = result'.datum.value
             /\ \A k \in STORAGE_KEYS \ {result'.key} :
                    localStorage'[k] = localStorage[k]

GetFromStorageStep ==
    result'.op = "getFromStorage" =>
        /\ localStorage' = localStorage
        /\ (localStorage[result'.key] \in {NoItem, NotJSON}) => result'.ret = null
        /\ (localStorage[result'.key] \notin {NoItem, NotJSON}) =>
               JSONstringify(result'.ret) = localStorage[result'.key]

\* C18: the key-value adapter never raises to its caller on a
\* serialization or storage failure: saveToStorage returns false and
\* leaves the value previously stored under that key unchanged,
\* getFromStorage returns null (absent); on success saveToStorage returns
\* true and a following getFromStorage of the same key returns the saved
\* value.
C18_AdapterAbsorbsFailures == [][SaveToStorageStep /\ GetFromStorageStep]_vars

\* A save failed on a full storage and the array stored before is still
\* there
C18_Witness ==
    /\ result.op = "saveToStorage"
    /\ result.ret = "false"
    /\ result.datum.kind = "array"
    /\ quotaExceeded
    /\ result.key = RECENT_SEARCHES
    /\ localStorage[RECENT_SEARCHES] = JSONstringify(<<"pasta">>)
    /\ result.datum.value = <<"soup", "pasta">>

----------------------------------------------------------------------------
(* C19 *)

\* The sum of the amounts of the occurrences of a name, a missing amount
\* counting as 0
RECURSIVE SumOfAmounts(_, _)
SumOfAmounts(occurrences, name) ==
    IF occurrences = <<>> THEN 0
    ELSE (IF Head(occurrences).name = name /\ "amount" \in DOMAIN Head(occurrences)
          THEN Head(occurrences).amount ELSE 0)
         + SumOfAmounts(Tail(occurrences), name)

FirstOccurrence(occurrences, name) ==
    CHOOSE k \in 1..Len(occurrences) :
        /\ occurrences[k].name = name
        /\ \A j \in 1..(k - 1) : occurrences[j].name # name

IsDerivedList(list, occurrences) ==
    /\ {list[i].name : i \in 1..Len(list)}
           = {occurrences[k].name : k \in 1..Len(occurrences)}
    /\ \A i, j \in 1..Len(list) :
           /\ list[i].name = list[j].name => i = j
           /\ i < j => FirstOccurrence(occurrences, list[i].name)
                          < FirstOccurrence(occurrences, list[j].name)
    /\ \A i \in 1..Len(list) :
           LET first == occurrences[FirstOccurrence(occurrences, list[i].name)]
           IN  /\ DOMAIN list[i] = {"name", "category", "amount", "unit", "checked"}
               /\ list[i].amount = SumOfAmounts(occurrences, list[i].name)
               /\ list[i].unit = (IF "unit" \in DOMAIN first THEN first.unit ELSE "")
               /\ list[i].category =
                      categorizeIngredient(IF "aisle" \in DOMAIN first /\ first.aisle # <<>>
                                           THEN first.aisle ELSE first.name)
               /\ list[i].checked = FALSE

\* C19: generateShoppingListFromMealPlan() returns exactly one entry per
\* distinct ingredient name (exact string match) occurring in the
\* ingredient lists of the non-null meal slots, in order of first
\* occurrence along the getAllMealsFromPlan enumeration; each entry's
\* amount is the sum of the amounts of all occurrences of that name (a
\* missing amount counting as 0), its unit and category come from the
\* first occurrence, and checked is false.
C19_DerivedListSumsByName ==
    [][result'.op = "generateShoppingListFromMealPlan" =>
          /\ localStorage' = localStorage
          /\ IsDerivedList(result'.ret,
                           AllIngredients(getAllMealsFromPlan(localStorage)))]_vars

\* Two planned recipes both have "Tomato": one entry carries the sum and
\* the unit of the first, and "tomato" is an entry of its own
C19_Witness ==
    /\ result.op = "generateShoppingListFromMealPlan"
    /\ Len(result.ret) = 3
    /\ result.ret[1].name = Tomato
    /\ result.ret[1].amount = 5
    /\ result.ret[1].unit = "cup"
    /\ result.ret[2].name = FreshBasil
    /\ result.ret[2].amount = 0
    /\ result.ret[3].name = tomato

----------------------------------------------------------------------------
(* categorizeIngredient on its own *)

MaxPhraseWords == 2   \* words in an aisle or ingredient name

CategorizeWords ==
    {<<"f", "r", "e", "s", "h">>,
     <<"b", "a", "s", "i", "l">>,
     <<"P", "e", "p", "p", "e", "r">>,
     <<"h", "a", "m">>,
     <<"c", "r", "e", "a", "m">>,
     <<"r", "i", "c", "e">>,
     <<"c", "a", "n">>,
     <<"t", "o", "m", "a", "t", "o">>,
     <<"p", "a", "s", "t", "e">>,
     <<"t", "o", "f", "u">>,
     <<"O", "I", "L">>,
     <<"e", "g", "g", "p", "l", "a", "n", "t">>}

\* The phrases of up to n words, the words a space apart
RECURSIVE Phrases(_)
Phrases(n) ==
    IF n = 1 THEN CategorizeWords
    ELSE Phrases(n - 1)
         \cup {p \o <<" ">> \o w : p \in Phrases(n - 1), w \in CategorizeWords}

\* What a caller passes: a phrase, the empty string, or nothing
CategorizeInputs ==
    {[given |-> TRUE, text |-> p] : p \in Phrases(MaxPhraseWords) \cup {<<>>}}
    \cup {[given |-> FALSE, text |-> <<>>]}

\* `aisle || ''`
AisleOrEmpty(input) == IF input.given THEN input.text ELSE <<>>

CategorizeIngredient ==
    \E input \in CategorizeInputs :
        /\ result' = [op |-> "categorizeIngredient", input |-> input,
                      ret |-> categorizeIngredient(AisleOrEmpty(input))]
        /\ UNCHANGED <<localStorage, now, quotaExceeded, inflight, page>>

NextCategorize == CategorizeIngredient

SpecCategorize == Init /\ [][NextCategorize]_vars

----------------------------------------------------------------------------
(* C20 *)

CategoryOrder == <<"produce", "meat", "dairy", "grains", "spices", "pantry">>

KeywordsOf(category) ==
    CASE category = "produce" -> ProduceKeywords
      [] category = "meat" -> MeatKeywords
      [] category = "dairy" -> DairyKeywords
      [] category = "grains" -> GrainsKeywords
      [] category = "spices" -> SpicesKeywords
      [] category = "pantry" -> PantryKeywords

\* The categories a keyword of which occurs in the lower-cased text
Hits(text) ==
    {i \in 1..Len(CategoryOrder) :
        \E word \in KeywordsOf(CategoryOrder[i]) :
            \E at \in 1..Len(text) :
                /\ at + Len(word) - 1 <= Len(text)
                /\ \A c \in 1..Len(word) : LowerChar(text[at + c - 1]) = word[c]}

\* C20: categorizeIngredient(s) returns, for every input string, the first
\* category in the fixed order produce, meat, dairy, grains, spices,
\* pantry whose keyword set contains a keyword occurring in the
\* lower-cased input, and 'other' when no keyword of any category occurs
\* (including for empty or missing input); 'fresh basil' yields 'produce'.
C20_FirstMatchingCategory ==
    result.op = "categorizeIngredient" =>
        LET text == IF result.input.given THEN result.input.text ELSE <<>>
            hits == Hits(text)
        IN  /\ hits = {} => result.ret = "other"
            /\ hits # {} =>
                   result.ret = CategoryOrder[CHOOSE i \in hits : \A j \in hits : i <= j]
            /\ text = FreshBasil => result.ret = "produce"

\* 'fresh basil' was categorized: produce and spices both have a keyword
\* in it
C20_Witness ==
    /\ result.op = "categorizeIngredient"
    /\ result.input = [given |-> TRUE, text |-> FreshBasil]
    /\ Hits(FreshBasil) = {1, 5}
    /\ result.ret = "produce"

----------------------------------------------------------------------------
(* C21 *)

\* The sum of one nutrient over the recipes of the given plan entries
RECURSIVE SumNutrient(_, _)
SumNutrient(entries, nutrient) ==
    IF entries = <<>> THEN 0
    ELSE extractNutritionFromRecipe(Head(entries).recipe)[nutrient]
         + SumNutrient(Tail(entries), nutrient)

\* avg is the integer nearest to total / 7 (a seventh is never a half)
IsNearestSeventh(avg, total) ==
    /\ 2 * (7 * avg - total) <= 7
    /\ 2 * (total - 7 * avg) <= 7

IsWeekView == result.op = "loadNutritionData" /\ result.view \in {"week", "month"}

\* C21: the weekly view's daily average for each of calories, protein,
\* carbs and fat equals the sum of extractNutritionFromRecipe over all
\* filled slots of all seven days divided by 7 and rounded to the nearest
\* integer, with empty days counted in the divisor (only Monday filled
\* with 1400 calories gives 200).
C21_WeeklyAverageIsRoundedSeventh ==
    IsWeekView =>
        LET filled == getAllMealsFromPlan(localStorage)
        IN  /\ IsNearestSeventh(result.shown.avgCalories, SumNutrient(filled, "calories"))
            /\ IsNearestSeventh(result.shown.avgProtein, SumNutrient(filled, "protein"))
            /\ IsNearestSeventh(result.shown.avgCarbs, SumNutrient(filled, "carbs"))
            /\ IsNearestSeventh(result.shown.avgFat, SumNutrient(filled, "fat"))
            /\ (/\ Len(filled) = 1
                /\ filled[1].day = "monday"
                /\ SumNutrient(filled, "calories") = 1400)
               => result.shown.avgCalories = 200

\* The week view of a plan whose only meal is Monday's, of 1400 calories
C21_Witness ==
    /\ IsWeekView
    /\ LET filled == getAllMealsFromPlan(localStorage)
       IN  /\ Len(filled) = 1
           /\ filled[1].day = "monday"
           /\ SumNutrient(filled, "calories") = 1400
    /\ result.shown.avgCalories = 200

\* The week view of a plan whose protein is not a multiple of 7
C21_WitnessRounded ==
    /\ IsWeekView
    /\ SumNutrient(getAllMealsFromPlan(localStorage), "protein") = 13
    /\ result.shown.avgProtein = 2

----------------------------------------------------------------------------
(* extractNutritionFromRecipe on its own *)

MaxNutrients == 2   \* entries of a nutrient list

\* Entries of nutrition.nutrients: the four names the dashboard reads and
\* one it does not, with amounts 455.4 and 12.5 held in tenths
NutrientEntries ==
    {[name |-> n, amount |-> a] :
        n \in {"Calories", "Protein", "Carbohydrates", "Fat", "Fiber"},
        a \in {4554, 125}}

\* A list with an entry for each of the four names
FullNutrients ==
    <<[name |-> "Fat", amount |-> 125], [name |-> "Calories", amount |-> 4554],
      [name |-> "Carbohydrates", amount |-> 4554], [name |-> "Protein", amount |-> 125]>>

\* Recipe objects: without nutrition, with nutrition null, with a nutrition
\* that has no nutrient list, and with a nutrient list
NutritionRecipes ==
    {[id |-> 1, title |-> "recipe"],
     [id |-> 1, title |-> "recipe", nutrition |-> null],
     [id |-> 1, title |-> "recipe", nutrition |-> [caloricBreakdown |-> null]]}
    \cup {[id |-> 1, title |-> "recipe", nutrition |-> [nutrients |-> l]] :
              l \in SeqsUpTo(NutrientEntries, MaxNutrients) \cup {FullNutrients}}

ExtractNutritionFromRecipe ==
    \E recipe \in NutritionRecipes :
        /\ result' = [op |-> "extractNutritionFromRecipe", recipe |-> recipe,
                      ret |-> extractNutritionFromRecipe(recipe)]
        /\ UNCHANGED <<localStorage, now, quotaExceeded, inflight, page>>

NextNutrition == ExtractNutritionFromRecipe

SpecNutrition == Init /\ [][NextNutrition]_vars

----------------------------------------------------------------------------
(* C22 *)

\* The nutrient list of a recipe object, empty when it has none
NutrientListOf(recipe) ==
    IF "nutrition" \in DOMAIN recipe
    THEN IF "nutrients" \in DOMAIN recipe.nutrition
         THEN recipe.nutrition.nutrients ELSE <<>>
    ELSE <<>>

\* value is 0 when the list has no entry of that name, and otherwise the
\* integer nearest to the amount (in tenths) of its first entry of that name
IsRoundedAmountOf(value, nutrients, name) ==
    LET named == {k \in 1..Len(nutrients) : nutrients[k].name = name}
    IN  IF named = {} THEN value = 0
        ELSE LET first == CHOOSE k \in named : \A j \in named : k <= j
                 amount == nutrients[first].amount
             IN  /\ 10 * value - amount <= 5
                 /\ amount - 10 * value <= 5

\* C22: extractNutritionFromRecipe(recipe) returns for each of calories,
\* protein, carbs, fat the amount of the nutrient entry named 'Calories',
\* 'Protein', 'Carbohydrates', 'Fat' rounded to the nearest integer, and 0
\* for each name that has no entry or when the recipe has no nutrition or
\* nutrient list; it never raises for a recipe object.
C22_ExtractsRoundedAmountsOrZero ==
    result.op = "extractNutritionFromRecipe" =>
        LET nutrients == NutrientListOf(result.recipe)
        IN  /\ DOMAIN result.ret = {"calories", "protein", "carbs", "fat"}
            /\ IsRoundedAmountOf(result.ret.calories, nutrients, "Calories")
            /\ IsRoundedAmountOf(result.ret.protein, nutrients, "Protein")
            /\ IsRoundedAmountOf(result.ret.carbs, nutrients, "Carbohydrates")
            /\ IsRoundedAmountOf(result.ret.fat, nutrients, "Fat")

\* A recipe with Calories 455.4 and none of the other three names gave
\* {calories: 455, protein: 0, carbs: 0, fat: 0}
C22_Witness ==
    /\ result.op = "extractNutritionFromRecipe"
    /\ NutrientListOf(result.recipe) = <<[name |-> "Calories", amount |-> 4554]>>
    /\ result.ret = [calories |-> 455, protein |-> 0, carbs |-> 0, fat |-> 0]

----------------------------------------------------------------------------
(* Recipe-catalog client: the response cache *)

SearchExpiryMinutes == 30    \* searchRecipesWithCache caches for 30 minutes
DefaultExpiryMinutes == 60   \* cacheAPIResponse(key, data, expiryMinutes = 60)
MsPerMinute == 60 * 1000

HalfHour == SearchExpiryMinutes * MsPerMinute

\* `api_cache_${key}`
CacheItemKey(key) == "api_cache_" \o key

\* `search_${query}_${JSON.stringify(filters)}`, the filters given by
\* their JSON text
SearchCacheKey(query, filtersText) == "search_" \o query \o "_" \o filtersText

SearchQueries == {"pasta"}
SearchFilters == {"{}"}
SearchCacheKeys == {SearchCacheKey(q, f) : q \in SearchQueries, f \in SearchFilters}

\* Keys a page passes to cacheAPIResponse / getCachedAPIResponse itself
DirectCacheKeys == {"recipe_1"}

CacheItemKeys == {CacheItemKey(k) : k \in SearchCacheKeys \cup DirectCacheKeys}

\* A key of the origin that belongs to neither the store nor the cache
OtherKey == "theme"

\* Result lists of searchRecipes: no hit (or a failed request), one, two
SearchResults == {<<>>, <<[id |-> 1]>>, <<[id |-> 1], [id |-> 2]>>}

\* cacheAPIResponse(key, data, expiryMinutes): setItem is not guarded here,
\* so its exception reaches the caller
cacheAPIResponse(ls, t, key, data, expiryMinutes) ==
    IF quotaExceeded
    THEN [ls |-> ls, ret |-> "threw"]
    ELSE [ls |-> [ls EXCEPT ![CacheItemKey(key)] =
                     JSONstringify([data |-> data, timestamp |-> t,
                                    expiry |-> expiryMinutes * MsPerMinute])],
          ret |-> "undefined"]

\* A mutation of getCachedAPIResponse that still serves an entry at its
\* expiry
getCachedAPIResponse_servesAtExpiry(ls, t, key) ==
    LET item == ls[CacheItemKey(key)]
    IN  IF item = NoItem \/ item = NotJSON THEN [ls |-> ls, ret |-> null]
        ELSE LET cacheData == JSONparse(item)
             IN  IF t - cacheData.timestamp <= cacheData.expiry
                 THEN [ls |-> ls, ret |-> Box(cacheData.data)]
                 ELSE [ls |-> [ls EXCEPT ![CacheItemKey(key)] = NoItem], ret |-> null]

\* getCachedAPIResponse(key): the data (boxed here) or null
getCachedAPIResponse(ls, t, key) ==
    LET item == ls[CacheItemKey(key)]
    IN  IF item = NoItem \/ item = NotJSON THEN [ls |-> ls, ret |-> null]
        ELSE LET cacheData == JSONparse(item)
             IN  IF t - cacheData.timestamp < cacheData.expiry
                 THEN [ls |-> ls, ret |-> Box(cacheData.data)]
                 ELSE [ls |-> [ls EXCEPT ![CacheItemKey(key)] = NoItem], ret |-> null]

\* A browser profile with nothing stored, the cache and a foreign key
\* included
InitOrigin ==
    /\ localStorage = [k \in STORAGE_KEYS \cup CacheItemKeys \cup {OtherKey} |-> NoItem]
    /\ now = 0
    /\ quotaExceeded = FALSE
    /\ inflight = [i \in RecipeIds |-> 0]
    /\ result = [op |-> "init"]
    /\ button = "white heart"
    /\ modal = NoModal
    /\ searching = {}

\* Instants around the half hour and the hour after the start
Instants == {1, HalfHour - 1, HalfHour, HalfHour + 1, 2 * HalfHour, 2 * HalfHour + 1}

\* Time passes to a later instant
PassTime ==
    \E t \in Instants :
        /\ t > now
        /\ now' = t
        /\ result' = [op |-> "passTime"]
        /\ UNCHANGED <<localStorage, quotaExceeded, inflight, page>>

CacheAPIResponse ==
    \E key \in DirectCacheKeys, data \in SearchResults,
       expiryMinutes \in {DefaultExpiryMinutes, 0} :
        LET r == cacheAPIResponse(localStorage, now, key, data, expiryMinutes)
        IN  /\ localStorage' = r.ls
            /\ result' = [op |-> "cacheAPIResponse", key |-> key, outcome |-> r.ret]
            /\ UNCHANGED <<now, quotaExceeded, inflight, page>>

GetCachedAPIResponse ==
    \E key \in SearchCacheKeys \cup DirectCacheKeys :
        LET r == getCachedAPIResponse(localStorage, now, key)
        IN  /\ localStorage' = r.ls
            /\ result' = [op |-> "getCachedAPIResponse", key |-> key, ret |-> r.ret]
            /\ UNCHANGED <<now, quotaExceeded, inflight, page>>

\* searchRecipesWithCache(query, filters) up to its await: a cached value
\* that is truthy is returned, otherwise the call suspends on searchRecipes
SearchRecipesWithCacheCall ==
    \E query \in SearchQueries, filtersText \in SearchFilters :
        LET cacheKey == SearchCacheKey(query, filtersText)
            cached == getCachedAPIResponse(localStorage, now, cacheKey)
        IN  /\ localStorage' = cached.ls
            /\ IF cached.ret # null
               THEN /\ result' = [op |-> "searchRecipesWithCache", key |-> cacheKey,
                                  did |-> "cached", ret |-> cached.ret]
                    /\ UNCHANGED searching
               ELSE /\ cacheKey \notin searching
                    /\ searching' = searching \cup {cacheKey}
                    /\ result' = [op |-> "searchRecipesWithCache", key |-> cacheKey,
                                  did |-> "fetching"]
            /\ UNCHANGED <<now, quotaExceeded, inflight, button, modal>>

\* searchRecipesWithCache after the await: searchRecipes resolved with the
\* result list, which is empty when the request failed
SearchRecipesWithCacheResume ==
    \E cacheKey \in searching, results \in SearchResults :
        /\ searching' = searching \ {cacheKey}
        /\ IF Len(results) > 0
           THEN LET r == cacheAPIResponse(localStorage, now, cacheKey, results,
                                          SearchExpiryMinutes)
                IN  /\ localStorage' = r.ls
                    /\ result' = [op |-> "searchRecipesWithCache", key |-> cacheKey,
                                  did |-> IF r.ret = "threw" THEN "threw" ELSE "fetched",
                                  ret |-> Box(results)]
           ELSE /\ localStorage' = localStorage
                /\ result' = [op |-> "searchRecipesWithCache", key |-> cacheKey,
                              did |-> "fetched", ret |-> Box(results)]
        /\ UNCHANGED <<now, quotaExceeded, inflight, button, modal>>

NextCache ==
    \/ CacheAPIResponse
    \/ GetCachedAPIResponse
    \/ SearchRecipesWithCacheCall
    \/ SearchRecipesWithCacheResume
    \/ PassTime
    \/ QuotaChange

SpecCache == InitOrigin /\ [][NextCache]_vars

----------------------------------------------------------------------------
(* The five collections, the cache and a foreign key in one origin *)

\* One call of a Domain Store operation that may write
StoreCall(op, r) ==
    /\ localStorage' = r.ls
    /\ result' = [op |-> op, ret |-> r.ret]
    /\ UNCHANGED <<now, quotaExceeded, inflight, page>>

FavoritesCall ==
    \/ StoreCall("addToFavorites", addToFavorites(localStorage, now, Recipe(1)))
    \/ StoreCall("removeFromFavorites", removeFromFavorites(localStorage, 1))
    \/ StoreCall("clearFavorites", clearFavorites(localStorage))

MealPlanCall ==
    \/ \E day \in {"monday", "constructor"} :
          StoreCall("addMealToPlan", addMealToPlan(localStorage, day, "dinner", Recipe(1)))
    \/ StoreCall("removeMealFromPlan", removeMealFromPlan(localStorage, "monday", "dinner"))
    \/ StoreCall("clearMealPlan", clearMealPlan(localStorage))

ShoppingListCall ==
    \/ StoreCall("addToShoppingList",
                 addToShoppingList(localStorage, now, now, [name |-> Onion]))
    \/ StoreCall("toggleShoppingItem", toggleShoppingItem(localStorage, now))
    \/ StoreCall("removeFromShoppingList", removeFromShoppingList(localStorage, now))
    \/ StoreCall("clearShoppingList", clearShoppingList(localStorage))

PreferencesCall ==
    \/ StoreCall("saveUserPreferences",
                 saveUserPreferences(localStorage, [diets |-> <<"vegan">>]))
    \/ StoreCall("updatePreference",
                 updatePreference(localStorage, "calorieGoal", Box(2500)))

RecentSearchesCall ==
    \/ StoreCall("addRecentSearch", addRecentSearch(localStorage, Queries[2]))
    \/ StoreCall("clearRecentSearches", clearRecentSearches(localStorage))

\* Another script of the origin writes or removes its own key
OtherWrite ==
    /\ localStorage' = [localStorage EXCEPT ![OtherKey] =
                            IF @ = NoItem THEN JSONstringify("dark") ELSE NoItem]
    /\ result' = [op |-> "otherWrite"]
    /\ UNCHANGED <<now, quotaExceeded, inflight, page>>

NextOrigin ==
    \/ FavoritesCall
    \/ MealPlanCall
    \/ ShoppingListCall
    \/ PreferencesCall
    \/ RecentSearchesCall
    \/ ClearAllStorage
    \/ SearchRecipesWithCacheCall
    \/ SearchRecipesWithCacheResume
    \/ OtherWrite

SpecOrigin == InitOrigin /\ [][NextOrigin]_vars

----------------------------------------------------------------------------
(* C23 *)

\* The storage keys an operation may write
KeysOf(op) ==
    CASE op \in {"addToFavorites", "removeFromFavorites", "clearFavorites"} -> {FAVORITES}
      [] op \in {"addMealToPlan", "removeMealFromPlan", "clearMealPlan"} -> {MEAL_PLAN}
      [] op \in {"addToShoppingList", "toggleShoppingItem", "removeFromShoppingList",
                 "clearShoppingList"} -> {SHOPPING_LIST}
      [] op \in {"saveUserPreferences", "updatePreference"} -> {USER_PREFERENCES}
      [] op \in {"addRecentSearch", "clearRecentSearches"} -> {RECENT_SEARCHES}
      [] op = "clearAllStorage" -> STORAGE_KEYS
      [] op \in {"cacheAPIResponse", "getCachedAPIResponse", "searchRecipesWithCache"} ->
             DOMAIN localStorage \ (STORAGE_KEYS \cup {OtherKey})
      [] op = "otherWrite" -> {OtherKey}
      [] OTHER -> {}

WritesOwnKeysOnly ==
    \A k \in DOMAIN localStorage :
        localStorage'[k] # localStorage[k] => k \in KeysOf(result'.op)

ClearAllRemovesTheFive ==
    result'.op = "clearAllStorage" =>
        \A k \in DOMAIN localStorage :
            localStorage'[k] = IF k \in STORAGE_KEYS THEN NoItem ELSE localStorage[k]

\* C23: the five collections are independent: every mutating Domain Store
\* operation changes at most the storage key of its own collection and
\* leaves the other four collections and all unrelated storage keys
\* unchanged; only clearAllStorage touches several, and it removes exactly
\* the five application keys; the catalog client's cache writes never
\* touch the five keys.
C23_CollectionsIndependent ==
    [][WritesOwnKeysOnly /\ ClearAllRemovesTheFive]_vars

\* clearAllStorage has just run in an origin where the five collections,
\* a cache entry and a foreign key were all stored
C23_Witness ==
    /\ result.op = "clearAllStorage"
    /\ \A k \in STORAGE_KEYS : localStorage[k] = NoItem
    /\ localStorage[OtherKey] # NoItem
    /\ \E k \in CacheItemKeys : localStorage[k] # NoItem

----------------------------------------------------------------------------
(* C30 *)

\* The parsed entry under a cache key is younger than its expiry
IsFresh(ls, t, key) ==
    /\ ls[CacheItemKey(key)] # NoItem
    /\ t - JSONparse(ls[CacheItemKey(key)]).timestamp
         < JSONparse(ls[CacheItemKey(key)]).expiry

\* getCachedAPIResponse(key) gives the data of a fresh entry and leaves
\* the storage alone; otherwise it gives null and the entry is gone
GetCachedIsTimeToLive ==
    result'.op = "getCachedAPIResponse" =>
        LET key == result'.key
        IN  IF IsFresh(localStorage, now, key)
            THEN /\ result'.ret = Box(JSONparse(localStorage[CacheItemKey(key)]).data)
                 /\ localStorage' = localStorage
            ELSE /\ result'.ret = null
                 /\ localStorage' = [localStorage EXCEPT ![CacheItemKey(key)] = NoItem]

\* searchRecipesWithCache returns the cached list only while it is less
\* than 30 minutes old, and otherwise calls the API
SearchServesYoungEntriesOnly ==
    (result'.op = "searchRecipesWithCache" /\ result'.did \in {"cached", "fetching"}) =>
        LET item == localStorage[CacheItemKey(result'.key)]
            young == /\ item # NoItem
                     /\ now - JSONparse(item).timestamp < SearchExpiryMinutes * 60000
        IN  /\ result'.did = "cached" <=> young
            /\ result'.did = "cached" => result'.ret = Box(JSONparse(item).data)
            /\ result'.did = "fetching" => localStorage'[CacheItemKey(result'.key)] = NoItem

\* No search-cache entry holds an empty result list
NoEmptyListCached ==
    \A key \in SearchCacheKeys :
        localStorage[CacheItemKey(key)] # NoItem
            => JSONparse(localStorage[CacheItemKey(key)]).data # <<>>

\* C30: the search cache is a pure time-to-live check:
\* getCachedAPIResponse returns an entry's data only while
\* (now - timestamp) < expiry and otherwise returns null and removes the
\* entry; searchRecipesWithCache therefore never returns a cached result
\* that is 30 minutes old or older, calls the API in that case, and never
\* stores an empty result list.
C30_CacheIsTimeToLive ==
    /\ []NoEmptyListCached
    /\ [][GetCachedIsTimeToLive /\ SearchServesYoungEntriesOnly]_vars

\* A search was served an entry one millisecond short of 30 minutes old
C30_Witness ==
    /\ result.op = "searchRecipesWithCache"
    /\ result.did = "cached"
    /\ localStorage[CacheItemKey(result.key)] # NoItem
    /\ now - JSONparse(localStorage[CacheItemKey(result.key)]).timestamp = HalfHour - 1

----------------------------------------------------------------------------
(* Recipe cards: the meal-plan modal *)

\* Values of the two selects of the modal that the user picks
ModalDays == {"monday", "sunday"}
ModalMeals == {"dinner"}

\* showMealPlanModal(recipeId): the modal is appended to the document.
\* One modal flow at a time: the overlay covers the cards.
ShowMealPlanModal ==
    \E recipeId \in RecipeIds :
        /\ modal = NoModal
        /\ modal' = [shown |-> TRUE, pending |-> FALSE, recipeId |-> recipeId]
        /\ result' = [op |-> "showMealPlanModal", recipeId |-> recipeId]
        /\ UNCHANGED <<localStorage, now, quotaExceeded, inflight, button, searching>>

\* Click on 'Add to Plan' up to its await: the selects are read, the
\* button is disabled and the handler suspends on the recipe-detail fetch
ConfirmAddToPlanClick ==
    \E day \in ModalDays, mealType \in ModalMeals :
        /\ modal.shown
        /\ ~modal.pending
        /\ modal' = [shown |-> TRUE, pending |-> TRUE, recipeId |-> modal.recipeId,
                     day |-> day, mealType |-> mealType]
        /\ result' = [op |-> "confirmAddToPlan", did |-> "fetching"]
        /\ UNCHANGED <<localStorage, now, quotaExceeded, inflight, button, searching>>

\* The handler after the await: with a recipe it calls addMealToPlan and
\* removes the modal; with null it shows a toast and enables the button
ConfirmAddToPlanResume ==
    \E outcome \in FetchOutcomes :
        LET recipe == getRecipeById(outcome, modal.recipeId)
        IN  /\ modal.pending
            /\ IF recipe # null
               THEN LET r == addMealToPlan(localStorage, modal.day, modal.mealType, recipe)
                    IN  /\ localStorage' = r.ls
                        /\ modal' = NoModal
                        /\ result' = [op |-> "confirmAddToPlan", outcome |-> outcome,
                                      did |-> "added", day |-> modal.day,
                                      mealType |-> modal.mealType,
                                      dismissed |-> ~modal.shown]
               ELSE /\ localStorage' = localStorage
                    /\ modal' = IF modal.shown
                                THEN [shown |-> TRUE, pending |-> FALSE,
                                      recipeId |-> modal.recipeId]
                                ELSE NoModal
                    /\ result' = [op |-> "confirmAddToPlan", outcome |-> outcome,
                                  did |-> "failed", dismissed |-> ~modal.shown]
            /\ UNCHANGED <<now, quotaExceeded, inflight, button, searching>>

\* Cancel, the close button or a click on the overlay: the modal is
\* removed from the document; a suspended handler stays suspended
DismissModal ==
    \E how \in {"cancel", "close", "overlay"} :
        /\ modal.shown
        /\ modal' = IF modal.pending
                    THEN [modal EXCEPT !.shown = FALSE]
                    ELSE NoModal
        /\ result' = [op |-> "dismissModal", how |-> how]
        /\ UNCHANGED <<localStorage, now, quotaExceeded, inflight, button, searching>>

NextModal ==
    \/ ShowMealPlanModal
    \/ ConfirmAddToPlanClick
    \/ ConfirmAddToPlanResume
    \/ DismissModal

SpecModal == Init /\ [][NextModal]_vars

\* The favorite button of the recipe cards
MaxClicks == 2   \* clicks whose calls are suspended together

NextFavoriteButton ==
    \/ ToggleFavoriteClickUpTo(MaxClicks)
    \/ ToggleFavoriteResume
    \/ Tick

SpecFavoriteButton == Init /\ [][NextFavoriteButton]_vars

MaxAwaiting == 1   \* handlers of the page suspended at an await at a time

\* The handlers of the page that are suspended at their fetch
Awaiting(calls, dialog) == SumOf(calls, DOMAIN calls) + (IF dialog.pending THEN 1 ELSE 0)

\* A page of recipe cards: favorite buttons and 'add to plan' buttons
NextRecipeCards ==
    /\ \/ ToggleFavoriteClick
       \/ ToggleFavoriteResume
       \/ ShowMealPlanModal
       \/ ConfirmAddToPlanClick
       \/ ConfirmAddToPlanResume
       \/ DismissModal
    /\ Awaiting(inflight', modal') <= MaxAwaiting

SpecRecipeCards == Init /\ [][NextRecipeCards]_vars

----------------------------------------------------------------------------
(* C24 *)

\* A step in which a handler resumed after its recipe-detail fetch
IsFetchResume(event) ==
    /\ event.op \in {"toggleFavorite", "confirmAddToPlan"}
    /\ event.did \in {"added", "failed"}

\* A failed fetch ends the handler with no write at all
FailedFetchChangesNothing ==
    (IsFetchResume(result') /\ result'.outcome # "ok") =>
        /\ result'.did = "failed"
        /\ localStorage' = localStorage

\* What a resumed handler stores is the recipe that the fetch gave
StoresTheFetchedRecipe ==
    (IsFetchResume(result') /\ result'.did = "added") =>
        /\ result'.outcome = "ok"
        /\ result'.op = "confirmAddToPlan" =>
               /\ getMealPlan(localStorage')[result'.day][result'.mealType] # null
               /\ getMealPlan(localStorage')[result'.day][result'.mealType]
                     = Recipe(modal.recipeId)
        /\ result'.op = "toggleFavorite" =>
               isInFavorites(localStorage', result'.recipeId)

\* No favorite is null
NoNullFavorite ==
    \A k \in 1..Len(getFavorites(localStorage)) : getFavorites(localStorage)[k] # null

\* C24: a recipe-detail fetch that fails (network error or non-OK HTTP
\* status) resolves to null without rejecting, and in that case
\* toggleFavorite and the meal-plan modal's confirm handler make no change
\* to favorites or the meal plan; the Domain Store is invoked only after
\* the fetch has resolved with a recipe, so null is never stored as a
\* favorite or in a meal slot.
C24_FailedFetchStoresNothing ==
    /\ []NoNullFavorite
    /\ [][FailedFetchChangesNothing /\ StoresTheFetchedRecipe]_vars

\* The confirm handler of a shown modal resumed after a non-OK status,
\* with favorites stored and a filled plan
C24_Witness ==
    /\ result.op = "confirmAddToPlan"
    /\ result.did = "failed"
    /\ result.outcome = "httpError"
    /\ modal.shown
    /\ getFavorites(localStorage) # <<>>
    /\ getAllMealsFromPlan(localStorage) # <<>>

----------------------------------------------------------------------------
(* C25 *)

NoCallInFlight == inflight[ObservedCard] = 0

\* C25: for a given recipe and favorite button, once all in-flight
\* toggleFavorite calls have completed, under every interleaving of clicks
\* and of fetch outcomes (success or failure), the button shows the filled
\* heart if and only if the recipe is in the favorites collection.
C25_ButtonShowsMembership ==
    NoCallInFlight =>
        (button = "red heart" <=> isInFavorites(localStorage, ObservedCard))

----------------------------------------------------------------------------
(* C26 *)

\* The modal was removed from the document while its confirm handler is
\* suspended
DismissedWhilePending == modal.pending /\ ~modal.shown

\* C26: if the meal-plan modal is dismissed (Cancel, the close button, or
\* a click on the overlay) at any time, including while the recipe fetch
\* started by 'Add to Plan' is still pending, the meal plan is not
\* modified by that modal afterwards.
C26_DismissedModalWritesNothing ==
    [][DismissedWhilePending => getMealPlan(localStorage') = getMealPlan(localStorage)]_vars

----------------------------------------------------------------------------
(* C27 *)

\* C27: importFavorites is all-or-nothing with respect to its reported
\* outcome: whenever it reports 'Failed to import favorites' (unparseable
\* file, non-array content, or an element that cannot be added) the
\* favorites collection is the same as before the import.
C27_FailedImportLeavesFavorites ==
    [][(result'.op = "importFavorites" /\ result'.toast = "Failed to import favorites")
          => getFavorites(localStorage') = getFavorites(localStorage)]_vars

----------------------------------------------------------------------------
(* C28 *)

\* list.forEach(item => addToShoppingList(item)): the storage after the
\* calls and how many of them returned false
RECURSIVE insertAll(_, _, _)
insertAll(ls, t, items) ==
    IF items = <<>> THEN [ls |-> ls, rejected |-> 0]
    ELSE LET r == addToShoppingList(ls, t, t, Head(items))
             rest == insertAll(r.ls, t, Tail(items))
         IN  [ls |-> rest.ls,
              rejected |-> rest.rejected + (IF r.ret = "false" THEN 1 ELSE 0)]

\* The origin with no shopping list stored
WithEmptyShoppingList(ls) == [ls EXCEPT ![SHOPPING_LIST] = NoItem]

NamesDistinctIgnoringCase(list) ==
    \A i, j \in 1..Len(list) :
        i # j => toLowerCase(list[i].name) # toLowerCase(list[j].name)

\* C28: the output of generateShoppingListFromMealPlan is compatible with
\* the shopping-list uniqueness rule: its entry names are pairwise distinct
\* under case-insensitive comparison, so inserting every generated entry
\* into an empty shopping list with addToShoppingList (storage having room)
\* is never rejected and yields as many items as the generated list has
\* entries.
C28_GeneratedListInsertsWhole ==
    [][(result'.op = "generateShoppingListFromMealPlan" /\ ~quotaExceeded) =>
          LET list == result'.ret
              r == insertAll(WithEmptyShoppingList(localStorage), now, list)
          IN  /\ NamesDistinctIgnoringCase(list)
              /\ r.rejected = 0
              /\ Len(getShoppingList(r.ls)) = Len(list)]_vars

----------------------------------------------------------------------------
(* categorizeIngredient on the keywords of its own patterns *)

\* categorizeIngredient(k) for a keyword k taken from the pattern of one of
\* the six categories
CategorizeListedKeyword ==
    \E i \in 1..Len(CategoryOrder) :
        \E keyword \in KeywordsOf(CategoryOrder[i]) :
            /\ result' = [op |-> "categorizeIngredient",
                          listedFor |-> CategoryOrder[i],
                          keyword |-> keyword,
                          ret |-> categorizeIngredient(keyword)]
            /\ UNCHANGED <<localStorage, now, quotaExceeded, inflight, page>>

NextKeywords ==
    \/ CategorizeListedKeyword
    \/ Tick

SpecKeywords == Init /\ [][NextKeywords]_vars

----------------------------------------------------------------------------
(* C29 *)

\* C29: no keyword listed for a category in categorizeIngredient is
\* shadowed: for every keyword k that appears in the pattern of a category
\* C (produce, meat, dairy, grains, spices, pantry), categorizeIngredient(k)
\* returns C.
C29_NoKeywordShadowed ==
    result.op = "categorizeIngredient" => result.ret = result.listedFor

\* The listed keywords that an earlier category takes: exactly these three
ShadowedKeywords ==
    {<<"p", "e", "p", "p", "e", "r">>,
     <<"t", "o", "m", "a", "t", "o", " ", "p", "a", "s", "t", "e">>,
     <<"c", "o", "c", "o", "n", "u", "t", " ", "m", "i", "l", "k">>}

OnlyTheThreeAreShadowed ==
    result.op = "categorizeIngredient" =>
        (result.ret # result.listedFor <=>
            /\ result.keyword \in ShadowedKeywords
            /\ result.listedFor \in {"spices", "pantry"})

====
